---- MODULE Spec2Model ----
(***************************************************************************)
(* Instruments_Control: the configure / verify / monitor / shutdown paths   *)
(* of the AFG1062 script, the OSA and SA instrument classes and the pages  *)
(* that drive them.                                                        *)
(*                                                                         *)
(* Text (SCPI arguments and responses) is a sequence of one-character      *)
(* strings.  A Python float is a record [nan, v]: v counts units of 1/128, *)
(* a grid on which the float subtraction and the comparisons of the source *)
(* are exact.                                                              *)
(***************************************************************************)
EXTENDS Integers, Sequences, FiniteSets, TLC

\* ------------------------------------------------------------------ bounds
\* Monitor ticks explored before the operator interrupts the AFG script.
MaxTicks == 2

\* ------------------------------------------------------------------- text
LowerAlpha == <<"a","b","c","d","e","f","g","h","i","j","k","l","m",
                "n","o","p","q","r","s","t","u","v","w","x","y","z">>
UpperAlpha == <<"A","B","C","D","E","F","G","H","I","J","K","L","M",
                "N","O","P","Q","R","S","T","U","V","W","X","Y","Z">>
DigitChars == <<"0","1","2","3","4","5","6","7","8","9">>
Whitespace == {" ", "\t", "\n", "\r"}

\* str.upper() on one character
UpperChar(c) ==
    IF \E i \in 1..26 : LowerAlpha[i] = c
    THEN UpperAlpha[CHOOSE i \in 1..26 : LowerAlpha[i] = c]
    ELSE c

\* str.upper()
Upper(t) == [i \in 1..Len(t) |-> UpperChar(t[i])]

RECURSIVE LStrip(_)
LStrip(t) == IF t # <<>> /\ Head(t) \in Whitespace THEN LStrip(Tail(t)) ELSE t

RECURSIVE RStrip(_)
RStrip(t) ==
    IF t # <<>> /\ t[Len(t)] \in Whitespace
    THEN RStrip(SubSeq(t, 1, Len(t) - 1))
    ELSE t

\* str.strip()
Strip(t) == LStrip(RStrip(t))

\* str.startswith(c) for a one-character prefix
StartsWith(t, c) == Len(t) >= 1 /\ t[1] = c

\* ----------------------------------------------------------------- floats
UnitsPerOne == 128
\* 1/128 = 0.0078125: seven fraction digits, 78125 per unit
FracDigits == 7
FracPerUnit == 78125

Num(v) == [nan |-> FALSE, v |-> v]
NaN == [nan |-> TRUE, v |-> 0]

IsDigit(c) == \E i \in 1..10 : DigitChars[i] = c
DigitVal(c) == (CHOOSE i \in 1..10 : DigitChars[i] = c) - 1

RECURSIVE Pow10(_)
Pow10(n) == IF n = 0 THEN 1 ELSE 10 * Pow10(n - 1)

RECURSIVE DigitsVal(_)
DigitsVal(t) ==
    IF t = <<>> THEN 0
    ELSE 10 * DigitsVal(SubSeq(t, 1, Len(t) - 1)) + DigitVal(t[Len(t)])

RECURSIVE NatDigits(_)
NatDigits(n) ==
    IF n < 10 THEN <<DigitChars[n + 1]>>
    ELSE Append(NatDigits(n \div 10), DigitChars[(n % 10) + 1])

RECURSIVE ZeroPad(_, _)
ZeroPad(t, n) == IF Len(t) >= n THEN t ELSE ZeroPad(<<"0">> \o t, n)

RECURSIVE StripZeros(_)
StripZeros(t) ==
    IF Len(t) > 1 /\ t[Len(t)] = "0"
    THEN StripZeros(SubSeq(t, 1, Len(t) - 1))
    ELSE t

AbsInt(n) == IF n < 0 THEN 0 - n ELSE n

\* str(float) / f"{x}": the shortest decimal text that reads back as x
FormatFloat(x) ==
    IF x.nan THEN <<"n","a","n">>
    ELSE (IF x.v < 0 THEN <<"-">> ELSE <<>>)
         \o NatDigits(AbsInt(x.v) \div UnitsPerOne)
         \o <<".">>
         \o StripZeros(ZeroPad(NatDigits((AbsInt(x.v) % UnitsPerOne) * FracPerUnit),
                               FracDigits))

AllDigits(t) == \A i \in 1..Len(t) : IsDigit(t[i])

\* position of the first "." of t, or 0
DotPos(t) ==
    IF \E i \in 1..Len(t) : t[i] = "."
    THEN CHOOSE i \in 1..Len(t) : t[i] = "." /\ \A j \in 1..(i - 1) : t[j] # "."
    ELSE 0

\* the unsigned decimal literals float() reads: digits, digits.digits, digits., .digits
IsDecimal(t) ==
    LET d == DotPos(t)
        ip == IF d = 0 THEN t ELSE SubSeq(t, 1, d - 1)
        fp == IF d = 0 THEN <<>> ELSE SubSeq(t, d + 1, Len(t))
    IN  /\ AllDigits(ip) /\ AllDigits(fp)
        /\ Len(ip) + Len(fp) >= 1
        /\ Len(fp) <= FracDigits

DecimalUnits(t) ==
    LET d == DotPos(t)
        ip == IF d = 0 THEN t ELSE SubSeq(t, 1, d - 1)
        fp == IF d = 0 THEN <<>> ELSE SubSeq(t, d + 1, Len(t))
    IN  DigitsVal(ip) * UnitsPerOne
        + (DigitsVal(fp) * UnitsPerOne) \div Pow10(Len(fp))

\* float(text): [ok, value]; ok = FALSE is the ValueError of a non-numeric text.
\* Exact for the literals on the 1/128 grid; exponents are not read.
ParseFloat(text) ==
    LET t == Strip(text)
        signed == t # <<>> /\ Head(t) \in {"+", "-"}
        body == IF signed THEN Tail(t) ELSE t
        neg == signed /\ Head(t) = "-"
    IN  IF Upper(body) = <<"N","A","N">> THEN [ok |-> TRUE, value |-> NaN]
        ELSE IF IsDecimal(body)
             THEN [ok |-> TRUE,
                   value |-> Num(IF neg THEN 0 - DecimalUnits(body)
                                 ELSE DecimalUnits(body))]
             ELSE [ok |-> FALSE, value |-> NaN]

\* the comparison with a strict inequality
StrictlyWithinTolerance(value, expected, tolHundredths) ==
    /\ ~value.nan
    /\ ~expected.nan
    /\ AbsInt(value.v - expected.v) * 100 < tolHundredths * UnitsPerOne

\* abs(value - expected) <= tolerance, the tolerance given in hundredths
\* (0.5 -> 50, 0.05 -> 5, 0.01 -> 1); false as soon as a NaN is involved.
WithinTolerance(value, expected, tolHundredths) ==
    /\ ~value.nan
    /\ ~expected.nan
    /\ AbsInt(value.v - expected.v) * 100 <= tolHundredths * UnitsPerOne

\* ------------------------------------------------------------- variables
VARIABLES
    cfg,          \* ChannelConfig handed to configure / verify
    reset,        \* the reset argument of configure_channel_one
    wire,         \* commands handed to the VISA instrument, in order
    cstate,       \* configure_channel_one: "idle", "running", "done", "raised"
    cidx,         \* index of its next write
    vstate,       \* verify_channel_one: "idle", "running", "returned"
    vidx,         \* index of its next query (1..6 fields, 7 SYST:ERR?)
    ok,           \* its local ok
    diagnostics,  \* its local diagnostics
    vresp,        \* what io.query returned or raised for each of its queries
    raised        \* exception propagating out of the running call (NoExc if none)

afgLibVars == <<cfg, reset, wire, cstate, cidx, vstate, vidx, ok, diagnostics,
                vresp, raised>>

VARIABLES
    pc,           \* AFG main: the statement it is at ("off": main is not running)
    check_only,   \* args.check_only
    monitor,      \* args.monitor > 0
    ticks,        \* monitor reports printed so far
    reports,      \* the OK / NG results main printed, in order
    retcode,      \* value of a return statement waiting for the finally block (-1: none)
    intr,         \* statement at which the last KeyboardInterrupt was delivered
    exit,         \* how main ended: [done, code, exc]
    fault,        \* the instrument call that raised in the try body: [at, kind]
    now,          \* the wall clock, in units of 1/ClockPerSecond seconds
    interval      \* args.monitor in the same units

afgMainVars == <<pc, check_only, monitor, ticks, reports, retcode, intr, exit,
                 fault, now, interval>>

VARIABLES
    sa_instr,     \* SA_FSV30._instr: "none" (None) or "open" (an RsInstrument)
    sa_call,      \* last SA_FSV30 method call: [method, sent, raised]
    osa_call      \* last OSA_AP2061A method call: [method, sent, raised]

drvVars == <<sa_instr, sa_call, osa_call>>

VARIABLES
    osa,                 \* OSAPage.osa: 0 (None) or the number of the session object
    nsess,               \* OSA_AP2061A objects created by the page so far
    acquisition_thread,  \* OSAPage.acquisition_thread: 0 (None) or a thread number
    nthreads,            \* threads created by the page so far
    stop_event,          \* OSAPage.stop_event is set
    data_queue,          \* OSAPage.data_queue, oldest item first
    update_timer,        \* OSAPage.update_timer is active
    btn,                 \* isEnabled() of the four buttons
    workers,             \* per thread: [pc, sess]
    gui,                 \* GUI thread: [at, sess, closing]
    plotted,             \* spectra shown: [from: the queue item, during: threads started so far]
    nacq,                \* acquire_once calls started by workers
    closed               \* closeEvent has run to its end

pageVars == <<osa, nsess, acquisition_thread, nthreads, stop_event, data_queue,
              update_timer, btn, workers, gui, plotted, nacq, closed>>

VARIABLES
    cli_pc,          \* OSA CLI main: the statement it is at ("off": not running)
    cli_stop_event,  \* stop_event of main is set
    cli_queue,       \* data_queue of main, oldest item first
    scan_pc,         \* _scan_worker: "unborn", "check", "acquiring", "wait", "finally", "dead"
    scans,           \* acquire_once calls started by _scan_worker
    scan_idx,        \* scan_idx of main
    worker_error,    \* worker_error of main ("none": None)
    printed,         \* the scan lines main printed: [idx, scan]
    plotter,         \* "none" (no --plot), "active", "closed" (window closed)
    cli_session,     \* the OSA session of the with statement: "open", "closed"
    cli_intr,        \* a KeyboardInterrupt is propagating in main
    cli_exit,        \* return value of main (-1: still running)
    early_error      \* the worker raised while main had not asked it to stop

cliVars == <<cli_pc, cli_stop_event, cli_queue, scan_pc, scans, scan_idx,
             worker_error, printed, plotter, cli_session, cli_intr, cli_exit,
             early_error>>

\* ------------------------------------------------------------ AFG texts
T_SIN == <<"S","I","N">>
T_sin == <<"s","i","n">>
T_SQU == <<"S","Q","U">>
T_50 == <<"5","0">>
T_INF == <<"I","N","F">>
T_inf == <<"i","n","f">>
T_ON == <<"O","N">>
T_OFF == <<"O","F","F">>
T_1 == <<"1">>
T_0 == <<"0">>
T_NoError == <<"0",",","N","o"," ","e","r","r","o","r">>
T_DevError == <<"-","1","1","3",",","U","n","d","e","f">>
T_Garbage == <<"?","?">>
T_Empty == <<>>

\* ----------------------------------------------------------- exceptions
NoExc == [type |-> "none", operation |-> "", command |-> "", arg |-> <<>>,
          original |-> ""]

\* class VisaCommandError(operation, command, original)
VisaCommandError(operation, command, original) ==
    [type |-> "VisaCommandError", operation |-> operation,
     command |-> command.head, arg |-> command.arg, original |-> original]

OtherExc(type) ==
    [type |-> type, operation |-> "", command |-> "", arg |-> <<>>,
     original |-> ""]

\* what the underlying inst.write / inst.query can do
InstFailures == {"VisaIOError", "OtherError"}
InstOutcomes == {"ok"} \cup InstFailures

Cmd(head, arg) == [head |-> head, arg |-> arg]
Sent(op, command) == [op |-> op, head |-> command.head, arg |-> command.arg]

\* the VisaCommandError is built without the command of the call
IoRaisesWithoutCommand(operation, command, u) ==
    IF u = "ok" THEN NoExc
    ELSE IF u = "VisaIOError" THEN VisaCommandError(operation, Cmd("", <<>>), u)
    ELSE OtherExc(u)

\* InstrumentIO.write / InstrumentIO.query: the exception the call raises for
\* the outcome u of the underlying call (NoExc for a normal return).  Only a
\* VisaIOError is wrapped; any other exception goes through as it is.
IoRaises(operation, command, u) ==
    IF u = "ok" THEN NoExc
    ELSE IF u = "VisaIOError" THEN VisaCommandError(operation, command, u)
    ELSE OtherExc(u)

\* InstrumentIO.query: the value returned for the raw response
IoQueryResult(response) == Strip(response)

\* ------------------------------------------------ configure_channel_one
\* the reset is sent after the settings instead of before them
ConfigureCommandsResetLate(c, r) ==
    <<Cmd("*CLS", <<>>),
      Cmd("SOUR1:FUNC", c.function),
      Cmd("SOUR1:FREQ", FormatFloat(c.frequency_hz)),
      Cmd("SOUR1:VOLT", FormatFloat(c.voltage_vpp)),
      Cmd("SOUR1:VOLT:OFFS", FormatFloat(c.offset_v)),
      Cmd("OUTP1:LOAD", c.load),
      Cmd("OUTP1", T_ON)>>
    \o (IF r THEN <<Cmd("*RST", <<>>)>> ELSE <<>>)

ConfigureCommands(c, r) ==
    <<Cmd("*CLS", <<>>)>>
    \o (IF r THEN <<Cmd("*RST", <<>>)>> ELSE <<>>)
    \o <<Cmd("SOUR1:FUNC", c.function),
         Cmd("SOUR1:FREQ", FormatFloat(c.frequency_hz)),
         Cmd("SOUR1:VOLT", FormatFloat(c.voltage_vpp)),
         Cmd("SOUR1:VOLT:OFFS", FormatFloat(c.offset_v)),
         Cmd("OUTP1:LOAD", c.load),
         Cmd("OUTP1", T_ON)>>

\* one io.write of configure_channel_one; a write that raises ends the call
ConfigureWrite(u) ==
    /\ cstate = "running"
    /\ LET command == ConfigureCommands(cfg, reset)[cidx]
           exc == IoRaises("write", command, u)
       IN  /\ wire' = Append(wire, Sent("write", command))
           /\ IF exc = NoExc
              THEN /\ cidx' = cidx + 1
                   /\ cstate' = IF cidx = Len(ConfigureCommands(cfg, reset))
                                THEN "done" ELSE "running"
                   /\ raised' = raised
              ELSE /\ cidx' = cidx
                   /\ cstate' = "raised"
                   /\ raised' = exc
    /\ UNCHANGED <<cfg, reset, vstate, vidx, ok, diagnostics, vresp>>

\* --------------------------------------------------- verify_channel_one
\* the queries of verify_channel_one in the order of its try blocks
VerifyQueries == <<"SOUR1:FUNC?", "SOUR1:FREQ?", "SOUR1:VOLT?",
                   "SOUR1:VOLT:OFFS?", "OUTP1:LOAD?", "OUTP1:STAT?", "SYST:ERR?">>

\* the labels handed to add_diag, in the same order
Labels == <<"function", "frequency", "amplitude(Vpp)", "offset(Vdc)", "load",
            "output state", "SYST:ERR?">>

NumFields == 6
ErrField == 7
NumericFields == {2, 3, 4}

\* tolerance= of the three check_numeric calls, in hundredths
FreqTolerance == 50
VoltTolerance == 5
OffsTolerance == 1
Tolerance(i) ==
    CASE i = 2 -> FreqTolerance
      [] i = 3 -> VoltTolerance
      [] i = 4 -> OffsTolerance

\* the cfg attribute each numeric field is compared with
ExpectedNumber(i, c) ==
    CASE i = 2 -> c.frequency_hz
      [] i = 3 -> c.voltage_vpp
      [] i = 4 -> c.offset_v

\* what a diagnostic line interpolates: a text or a number
TextShown(t) == [text |-> t, value |-> Num(0)]
NumShown(x) == [text |-> <<>>, value |-> x]

\* add_diag(label, status): status "OK" / "NG" of a compared field,
\* "QUERY_FAILED" with the exception, "RAW" for the SYST:ERR? text
Line(label, status, actual, expected, note) ==
    [label |-> label, status |-> status, actual |-> actual,
     expected |-> expected, note |-> note]

ComparedLine(i, passed, actual, expected) ==
    Line(Labels[i], IF passed THEN "OK" ELSE "NG", actual, expected, NoExc)

FailedLine(i, exc) ==
    Line(Labels[i], "QUERY_FAILED", TextShown(<<>>), TextShown(<<>>), exc)

\* check_numeric(actual, expected, tolerance); raised = the ValueError of float()
check_numeric(actual, expected, tolerance) ==
    LET p == ParseFloat(actual)
    IN  [raised |-> ~p.ok,
         passed |-> p.ok /\ WithinTolerance(p.value, expected, tolerance),
         value |-> p.value]

\* only the answer is upper-cased
TextMatchesRawExpected(response, expected) == Upper(response) = expected

\* func == expected_func and load == expected_load, both sides upper-cased
TextMatches(response, expected) == Upper(response) = Upper(expected)

\* a truth test of the answer instead of the comparison
StateIsTruthy(state) == state # <<>>

\* state == "1"
StateIsOn(state) == state = T_1

\* the error queue answer is only printed
ErrorIgnored(err) == TRUE

\* not err.startswith("0") is the error condition
NoErrorReported(err) == StartsWith(err, "0")

\* ok = passed
PlainAssign(okNow, passed) == passed

\* ok &= passed
AndAssign(okNow, passed) == okNow /\ passed

\* One try block of verify_channel_one: the query outcome o = [u, text] gives
\* the line appended and the new value of ok.
FieldBlock(i, c, okNow, o) ==
    LET exc == IoRaises("query", Cmd(VerifyQueries[i], <<>>), o.u)
        r == IoQueryResult(o.text)
    IN  IF exc # NoExc
        THEN [line |-> FailedLine(i, exc), ok |-> FALSE]
        ELSE IF i = 1
        THEN LET passed == TextMatches(r, c.function)
             IN  [line |-> ComparedLine(i, passed, TextShown(Upper(r)),
                                        TextShown(Upper(c.function))),
                  ok |-> AndAssign(okNow, passed)]
        ELSE IF i \in NumericFields
        THEN LET res == check_numeric(r, ExpectedNumber(i, c), Tolerance(i))
             IN  IF res.raised
                 THEN [line |-> FailedLine(i, OtherExc("ValueError")), ok |-> FALSE]
                 ELSE [line |-> ComparedLine(i, res.passed, NumShown(res.value),
                                             NumShown(ExpectedNumber(i, c))),
                       ok |-> AndAssign(okNow, res.passed)]
        ELSE IF i = 5
        THEN LET passed == TextMatches(r, c.load)
             IN  [line |-> ComparedLine(i, passed, TextShown(Upper(r)),
                                        TextShown(Upper(c.load))),
                  ok |-> AndAssign(okNow, passed)]
        ELSE IF i = 6
        THEN LET passed == StateIsOn(r)
             IN  [line |-> ComparedLine(i, passed, TextShown(r), TextShown(T_1)),
                  ok |-> AndAssign(okNow, passed)]
        ELSE [line |-> Line(Labels[i], "RAW", TextShown(r), TextShown(<<>>), NoExc),
              ok |-> IF NoErrorReported(r) THEN okNow ELSE FALSE]

\* a query failure ends verification at once
AfterBlockFailFast(i, failed) == IF failed THEN ErrField + 1 ELSE i + 1

\* index of the try block that runs after block i, whether or not its query
\* failed (8: the return statement)
AfterBlock(i, failed) == i + 1

\* ok starts from the results already reported by the caller
OkCarriedOver == \A i \in 1..Len(reports) : reports[i].ok

\* line 130: ok = True at every call
OkAtEntry == TRUE

\* the call: diagnostics = [], ok = True
VerifyEnter ==
    /\ vstate' = "running"
    /\ vidx' = 1
    /\ ok' = OkAtEntry
    /\ diagnostics' = <<>>
    /\ vresp' = <<>>

\* one io.query of verify_channel_one with its try block
VerifyQuery(o) ==
    /\ vstate = "running"
    /\ LET b == FieldBlock(vidx, cfg, ok, o)
       IN  /\ wire' = Append(wire, Sent("query", Cmd(VerifyQueries[vidx], <<>>)))
           /\ diagnostics' = Append(diagnostics, b.line)
           /\ ok' = b.ok
           /\ vresp' = Append(vresp, o)
           /\ vidx' = AfterBlock(vidx, b.line.status = "QUERY_FAILED")
           /\ vstate' = IF vidx' > ErrField THEN "returned" ELSE "running"
    /\ UNCHANGED <<cfg, reset, cstate, cidx, raised>>

\* ------------------------------------------------------- the instrument
\* ChannelConfig values: the defaults of the dataclass and a second setting
\* with lower-case texts, a fractional frequency and a negative offset
DefaultConfig ==
    [function |-> T_SIN, frequency_hz |-> Num(1000 * UnitsPerOne),
     voltage_vpp |-> Num(2 * UnitsPerOne), offset_v |-> Num(0), load |-> T_50]

OtherConfig ==
    [function |-> T_sin, frequency_hz |-> Num(1500 * UnitsPerOne + 32),
     voltage_vpp |-> Num(UnitsPerOne \div 2), offset_v |-> Num(0 - 64),
     load |-> T_inf]

Configs == {DefaultConfig, OtherConfig}

\* distances (in 1/128) of the numeric answers from the configured value:
\* on the value, on the edge of the tolerance, just outside it
Deltas(i) ==
    CASE i = 2 -> {0, 64, 0 - 65}
      [] i = 3 -> {0, 0 - 6, 7}
      [] i = 4 -> {0, 1, 0 - 2}

\* raw answers the instrument may give to query i
Responses(i, c) ==
    CASE i = 1 -> {c.function, T_SIN, T_SQU}
      [] i \in NumericFields ->
            {FormatFloat(Num(ExpectedNumber(i, c).v + d)) : d \in Deltas(i)}
            \cup (IF i = 2 THEN {T_Garbage} ELSE {})
            \cup (IF i = 3 THEN {FormatFloat(NaN)} ELSE {})
      [] i = 5 -> {c.load, T_50 \o <<" ">>, T_INF}
      [] i = 6 -> {T_1, T_0}
      [] i = 7 -> {T_NoError, T_DevError}

\* failures of inst.query explored in the readbacks
QueryFailures == {"VisaIOError"}

\* outcomes of io.query for query i: an answer, or a failure of inst.query
QueryOutcomes(i, c) ==
    {[u |-> "ok", text |-> t] : t \in Responses(i, c)}
    \cup {[u |-> f, text |-> <<>>] : f \in QueryFailures}

\* ------------------------------------------- configure, then verify
\* A caller of the two functions: configure_channel_one unless it only checks,
\* then verify_channel_one, as lines 260-267 of main do.
CallVerify ==
    /\ cstate \in {"idle", "done"}
    /\ vstate = "idle"
    /\ VerifyEnter
    /\ UNCHANGED <<cfg, reset, wire, cstate, cidx, raised>>

LibConfigureWrite == \E u \in InstOutcomes : ConfigureWrite(u)

LibVerifyQuery ==
    /\ vstate = "running"
    /\ \E o \in QueryOutcomes(vidx, cfg) : VerifyQuery(o)

InitLib ==
    /\ cfg \in Configs
    /\ reset \in BOOLEAN
    /\ wire = <<>>
    /\ cstate \in {"idle", "running"}
    /\ cstate = "idle" => ~reset
    /\ cidx = 1
    /\ vstate = "idle"
    /\ vidx = 1
    /\ ok = TRUE
    /\ diagnostics = <<>>
    /\ vresp = <<>>
    /\ raised = NoExc

\* ------------------------------------------ instrument classes (app/instruments)
\* str.lower() on one character
LowerChar(c) ==
    IF \E i \in 1..26 : UpperAlpha[i] = c
    THEN LowerAlpha[CHOOSE i \in 1..26 : UpperAlpha[i] = c]
    ELSE c

\* str.lower()
Lower(t) == [i \in 1..Len(t) |-> LowerChar(t[i])]

\* OSA_AP2061A._CHANNEL_ALIASES as (key, value) pairs
CHANNEL_ALIASES ==
    <<<< <<"s","u","m">>, <<"1","+","2">> >>,
      << <<"t","o","t","a","l">>, <<"1","+","2">> >>,
      << <<"0">>, <<"1","+","2">> >>,
      << <<"b","o","t","h">>, <<"1","&","2">> >>,
      << <<"1","&","2">>, <<"1","&","2">> >>,
      << <<"d","u","a","l">>, <<"1","&","2">> >>,
      << <<"1">>, <<"1">> >>,
      << <<"c","h","1">>, <<"1">> >>,
      << <<"c","h","a","n","n","e","l","1">>, <<"1">> >>,
      << <<"2">>, <<"2">> >>,
      << <<"c","h","2">>, <<"2">> >>,
      << <<"c","h","a","n","n","e","l","2">>, <<"2">> >> >>

\* self._CHANNEL_ALIASES.get(channel.lower(), channel)
ChannelKey(channel) ==
    LET hits == {i \in 1..Len(CHANNEL_ALIASES) : CHANNEL_ALIASES[i][1] = Lower(channel)}
    IN  IF hits = {} THEN channel ELSE CHANNEL_ALIASES[CHOOSE i \in hits : TRUE][2]

\* channel arguments explored
Channels == {<<"C","H","2">>, <<"B","o","t","h">>, <<"7">>}

\* a method call as the caller and the transport see it: the transport calls
\* it made with their outcomes, and the exception it raised
Call(method, sent, exc) == [method |-> method, sent |-> sent, raised |-> exc]
NoCall == Call("none", <<>>, NoExc)

\* a method keeps issuing its commands after one of them raised
CallsMadeKeepsGoing(commands, failAt) == commands

\* the commands a method issues, one statement after the other, when command
\* number failAt raises (0: none does): the statements after it are not run
CallsMade(commands, failAt) ==
    IF failAt = 0 THEN commands ELSE SubSeq(commands, 1, failAt)

\* how a run of n transport calls can go: all return, or call number failAt
\* raises an exception of one of the kinds
Runs(n, kinds) ==
    {[failAt |-> 0, kind |-> "ok"]}
    \cup {[failAt |-> i, kind |-> k] : i \in 1..n, k \in kinds}

\* the transport calls with their outcomes
Outcomes(commands, failAt, kind) ==
    LET made == CallsMade(commands, failAt)
    IN  [i \in 1..Len(made) |->
            [cmd |-> made[i].head, arg |-> made[i].arg,
             u |-> IF i = failAt THEN kind ELSE "ok"]]

\* PyApex raises ApexError; anything else the socket layer raises
OsaFailures == {"ApexError", "OtherError"}

\* RsInstrument raises its own exception classes
SaFailures == {"RsInstrException"}

\* OSA_AP2061A.configure: the PyApex calls, in order (center_nm, span_nm are
\* passed on as they are)
OsaConfigureCommands(channel) ==
    <<Cmd("SetPolarizationMode", ChannelKey(channel)),
      Cmd("SetCenter", <<>>),
      Cmd("SetSpan", <<>>)>>

\* OSA_AP2061A.configure
OsaConfigure ==
    \E channel \in Channels, r \in Runs(3, OsaFailures) :
        LET commands == OsaConfigureCommands(channel)
            exc == IF r.failAt = 0 THEN NoExc
                   ELSE IF r.failAt = 1 /\ r.kind = "ApexError"
                   THEN OtherExc("ValueError")
                   ELSE OtherExc(r.kind)
        IN  /\ osa_call' = Call("configure", Outcomes(commands, r.failAt, r.kind), exc)
            /\ UNCHANGED <<sa_instr, sa_call>>

\* OSA_AP2061A.close: try: self._ap2xxx.Close() except Exception: pass
OsaClose ==
    \E r \in Runs(1, OsaFailures) :
        /\ osa_call' = Call("close",
                            Outcomes(<<Cmd("Close", <<>>)>>, r.failAt, r.kind), NoExc)
        /\ UNCHANGED <<sa_instr, sa_call>>

\* SA_FSV30.connect: the constructor of RsInstrument, then the queries and
\* writes of the initialisation
SaConnectCommands ==
    <<Cmd("RsInstrument", <<>>), Cmd("*IDN?", <<>>), Cmd("*CLS", <<>>),
      Cmd("INIT:CONT OFF", <<>>), Cmd("ABOR", <<>>), Cmd("SYST:DISP:UPD ON", <<>>)>>

\* SA_FSV30.connect: self._instr is assigned by the first statement and
\* stays assigned when a later statement raises
SaInstrAfterConnect(r) == IF r.failAt = 1 THEN "none" ELSE "open"

\* SA_FSV30.connect
SaConnect ==
    IF sa_instr = "none"
    THEN \E r \in Runs(Len(SaConnectCommands), SaFailures) :
            /\ sa_instr' = SaInstrAfterConnect(r)
            /\ sa_call' = Call("connect",
                               Outcomes(SaConnectCommands, r.failAt, r.kind),
                               IF r.failAt = 0 THEN NoExc ELSE OtherExc(r.kind))
            /\ UNCHANGED osa_call
    ELSE /\ sa_call' = Call("connect", <<>>, NoExc)
         /\ UNCHANGED <<sa_instr, osa_call>>

\* SA_FSV30.disconnect: if self._instr: self._instr.close(); self._instr = None
SaDisconnect ==
    IF sa_instr = "open"
    THEN \E r \in Runs(1, SaFailures) :
            /\ sa_instr' = IF r.failAt = 0 THEN "none" ELSE "open"
            /\ sa_call' = Call("disconnect",
                               Outcomes(<<Cmd("close", <<>>)>>, r.failAt, r.kind),
                               IF r.failAt = 0 THEN NoExc ELSE OtherExc(r.kind))
            /\ UNCHANGED osa_call
    ELSE /\ sa_call' = Call("disconnect", <<>>, NoExc)
         /\ UNCHANGED <<sa_instr, osa_call>>

\* SA_FSV30.configure: the write_str_with_opc calls, in order (the numbers are
\* formatted into the command text)
SaConfigureCommands ==
    <<Cmd("SENS:FREQ:CENT", <<>>), Cmd("SENS:FREQ:SPAN", <<>>),
      Cmd("SENS:BAND:RES", <<>>), Cmd("SENS:BAND:VID", <<>>),
      Cmd("SENS:SWE:TYPE AUTO", <<>>)>>

\* SA_FSV30.configure
SaConfigure ==
    IF sa_instr = "none"
    THEN /\ sa_call' = Call("configure", <<>>, OtherExc("RuntimeError"))
         /\ UNCHANGED <<sa_instr, osa_call>>
    ELSE \E r \in Runs(Len(SaConfigureCommands), SaFailures) :
            /\ sa_call' = Call("configure",
                               Outcomes(SaConfigureCommands, r.failAt, r.kind),
                               IF r.failAt = 0 THEN NoExc ELSE OtherExc(r.kind))
            /\ UNCHANGED <<sa_instr, osa_call>>

\* no instrument object is part of the run
DriversOff ==
    /\ sa_instr = "none"
    /\ sa_call = NoCall
    /\ osa_call = NoCall

\* --------------------------------------------------- OSAPage (ui/pages/osa_page.py)
MaxSessions == 2
MaxStarts == 2
MaxAcq == 2

Threads == 1..MaxStarts

GuiIdle == [at |-> "idle", sess |-> 0, closing |-> FALSE]

\* a thread that is not created yet
Unborn == [pc |-> "unborn", sess |-> 0]

\* Thread.is_alive()
Alive(w) == workers[w].pc \notin {"unborn", "dead"}

Buttons(c, d, s, t) == [connect |-> c, disconnect |-> d, start |-> s, stop |-> t]

\* OSAPage.__init__ and _init_ui
PageInit ==
    /\ osa = 0
    /\ nsess = 0
    /\ acquisition_thread = 0
    /\ nthreads = 0
    /\ stop_event = FALSE
    /\ data_queue = <<>>
    /\ update_timer = FALSE
    /\ btn = Buttons(TRUE, FALSE, FALSE, FALSE)
    /\ workers = [w \in Threads |-> Unborn]
    /\ gui = GuiIdle
    /\ plotted = {}
    /\ nacq = 0
    /\ closed = FALSE

\* the page is not part of the run
PageOff ==
    /\ osa = 0
    /\ nsess = 0
    /\ acquisition_thread = 0
    /\ nthreads = 0
    /\ stop_event = FALSE
    /\ data_queue = <<>>
    /\ update_timer = FALSE
    /\ btn = Buttons(FALSE, FALSE, FALSE, FALSE)
    /\ workers = [w \in Threads |-> Unborn]
    /\ gui = GuiIdle
    /\ plotted = {}
    /\ nacq = 0
    /\ closed = TRUE

\* the GUI thread is in its event loop and the page takes events
GuiReady == gui.at = "idle" /\ ~closed

\* _on_connect_clicked: OSA_AP2061A(...) returns a new object, or raises and
\* the page only shows the error
ClickConnect ==
    /\ GuiReady
    /\ btn.connect
    /\ nsess < MaxSessions
    /\ \E u \in {"ok", "ConnectionError"} :
          IF u = "ok"
          THEN /\ osa' = nsess + 1
               /\ nsess' = nsess + 1
               /\ btn' = [btn EXCEPT !.connect = FALSE, !.disconnect = TRUE,
                                     !.start = TRUE]
          ELSE UNCHANGED <<osa, nsess, btn>>
    /\ UNCHANGED <<acquisition_thread, nthreads, stop_event, data_queue,
                   update_timer, workers, gui, plotted, nacq, closed>>

\* the statements of _on_disconnect_clicked after self.osa.close()
DisconnectTail ==
    /\ osa' = 0
    /\ btn' = Buttons(TRUE, FALSE, FALSE, FALSE)

\* _on_disconnect_clicked up to the call self.osa.close()
DisconnectEnter(closing) ==
    IF osa # 0
    THEN /\ gui' = [at |-> "close", sess |-> osa, closing |-> closing]
         /\ UNCHANGED <<osa, btn, closed>>
    ELSE /\ btn' = Buttons(TRUE, FALSE, FALSE, FALSE)
         /\ gui' = GuiIdle
         /\ closed' = closing
         /\ UNCHANGED osa

\* a click on the disconnect button
ClickDisconnect ==
    /\ GuiReady
    /\ btn.disconnect
    /\ DisconnectEnter(FALSE)
    /\ UNCHANGED <<nsess, acquisition_thread, nthreads, stop_event, data_queue,
                   update_timer, workers, plotted, nacq>>

\* self.osa.close() returns (it raises nothing), _on_disconnect_clicked ends
DisconnectReturn ==
    /\ gui.at = "close"
    /\ DisconnectTail
    /\ closed' = gui.closing
    /\ gui' = GuiIdle
    /\ UNCHANGED <<nsess, acquisition_thread, nthreads, stop_event, data_queue,
                   update_timer, workers, plotted, nacq>>

\* _on_start_clicked up to the call self.osa.configure(...)
ClickStart ==
    /\ GuiReady
    /\ btn.start
    /\ nthreads < MaxStarts
    /\ gui' = IF osa = 0 THEN GuiIdle
              ELSE [at |-> "configure", sess |-> osa, closing |-> FALSE]
    /\ UNCHANGED <<osa, nsess, acquisition_thread, nthreads, stop_event, data_queue,
                   update_timer, btn, workers, plotted, nacq, closed>>

\* self.osa.configure(...) returns or raises; after a return the stop flag is
\* cleared, a new thread is started and the timer runs
StartReturn ==
    /\ gui.at = "configure"
    /\ gui' = GuiIdle
    /\ \E u \in {"ok", "raises"} :
          IF u = "ok"
          THEN /\ stop_event' = FALSE
               /\ nthreads' = nthreads + 1
               /\ acquisition_thread' = nthreads + 1
               /\ workers' = [workers EXCEPT ![nthreads + 1] =
                                 [pc |-> "check", sess |-> osa]]
               /\ update_timer' = TRUE
               /\ btn' = [btn EXCEPT !.start = FALSE, !.stop = TRUE]
          ELSE UNCHANGED <<stop_event, nthreads, acquisition_thread, workers,
                           update_timer, btn>>
    /\ UNCHANGED <<osa, nsess, data_queue, plotted, nacq, closed>>

\* _on_stop_clicked up to the call self.acquisition_thread.join(timeout=2.0)
StopEnter ==
    /\ stop_event' = TRUE
    /\ update_timer' = FALSE
    /\ IF acquisition_thread # 0
       THEN /\ gui' = [at |-> "join", sess |-> 0, closing |-> FALSE]
            /\ UNCHANGED btn
       ELSE /\ gui' = GuiIdle
            /\ btn' = [btn EXCEPT !.start = TRUE, !.stop = FALSE]

\* a click on the stop button
ClickStop ==
    /\ GuiReady
    /\ btn.stop
    /\ StopEnter
    /\ UNCHANGED <<osa, nsess, acquisition_thread, nthreads, data_queue, workers,
                   plotted, nacq, closed>>

\* join(timeout=2.0) returns: the thread has ended, or two seconds have gone by
\* while its acquire_once call is still in flight
JoinReturn ==
    /\ gui.at = "join"
    /\ workers[acquisition_thread].pc \in {"dead", "acquiring"}
    /\ IF gui.closing
       THEN IF osa # 0
            THEN /\ gui' = [at |-> "close", sess |-> osa, closing |-> TRUE]
                 /\ btn' = [btn EXCEPT !.start = TRUE, !.stop = FALSE]
                 /\ UNCHANGED <<osa, closed>>
            ELSE /\ gui' = GuiIdle
                 /\ btn' = Buttons(TRUE, FALSE, FALSE, FALSE)
                 /\ closed' = TRUE
                 /\ UNCHANGED osa
       ELSE /\ gui' = GuiIdle
            /\ btn' = [btn EXCEPT !.start = TRUE, !.stop = FALSE]
            /\ UNCHANGED <<osa, closed>>
    /\ UNCHANGED <<nsess, acquisition_thread, nthreads, stop_event, data_queue,
                   update_timer, workers, plotted, nacq>>

\* closeEvent: _on_stop_clicked(), then _on_disconnect_clicked()
CloseEvent ==
    /\ GuiReady
    /\ stop_event' = TRUE
    /\ update_timer' = FALSE
    /\ IF acquisition_thread # 0
       THEN /\ gui' = [at |-> "join", sess |-> 0, closing |-> TRUE]
            /\ UNCHANGED <<btn, osa, closed>>
       ELSE IF osa # 0
       THEN /\ gui' = [at |-> "close", sess |-> osa, closing |-> TRUE]
            /\ btn' = [btn EXCEPT !.start = TRUE, !.stop = FALSE]
            /\ UNCHANGED <<osa, closed>>
       ELSE /\ gui' = GuiIdle
            /\ btn' = Buttons(TRUE, FALSE, FALSE, FALSE)
            /\ closed' = TRUE
            /\ UNCHANGED osa
    /\ UNCHANGED <<nsess, acquisition_thread, nthreads, data_queue, workers,
                   plotted, nacq>>

\* _update_plot on a timer tick: every queued item is emitted and drawn
UpdatePlot ==
    /\ GuiReady
    /\ update_timer
    /\ data_queue # <<>>
    /\ plotted' = plotted \cup
          {[from |-> data_queue[i], during |-> nthreads] : i \in 1..Len(data_queue)}
    /\ data_queue' = <<>>
    /\ UNCHANGED <<osa, nsess, acquisition_thread, nthreads, stop_event,
                   update_timer, btn, workers, gui, nacq, closed>>

\* _acquisition_worker, loop test: while not self.stop_event.is_set();
\* then self.osa is read and acquire_once is called on it (None has no such
\* attribute, the except clause ends the thread)
WorkerCheck(w) ==
    /\ workers[w].pc = "check"
    /\ IF stop_event \/ osa = 0
       THEN /\ workers' = [workers EXCEPT ![w].pc = "dead"]
            /\ UNCHANGED nacq
       ELSE /\ nacq < MaxAcq
            /\ workers' = [workers EXCEPT ![w] = [pc |-> "acquiring", sess |-> osa]]
            /\ nacq' = nacq + 1
    /\ UNCHANGED <<osa, nsess, acquisition_thread, nthreads, stop_event, data_queue,
                   update_timer, btn, gui, plotted, closed>>

\* self.data_queue.put((x_data, y_data)): the spectrum, with the thread that
\* acquired it and the Start clicks there have been when it is queued (a click
\* whose handler is still in configure counts as one)
QueueItem(w) ==
    [by |-> w, starts |-> nthreads + (IF gui.at = "configure" THEN 1 ELSE 0)]

\* acquire_once returns and the data is queued, or it raises and the except
\* clause ends the thread
WorkerAcquired(w) ==
    /\ workers[w].pc = "acquiring"
    /\ \E u \in {"ok", "raises"} :
          IF u = "ok"
          THEN /\ data_queue' = Append(data_queue, QueueItem(w))
               /\ workers' = [workers EXCEPT ![w].pc = "wait"]
          ELSE /\ workers' = [workers EXCEPT ![w].pc = "dead"]
               /\ UNCHANGED data_queue
    /\ UNCHANGED <<osa, nsess, acquisition_thread, nthreads, stop_event,
                   update_timer, btn, gui, plotted, nacq, closed>>

\* if self.stop_event.wait(0.5): break
WorkerWait(w) ==
    /\ workers[w].pc = "wait"
    /\ workers' = [workers EXCEPT ![w].pc = IF stop_event THEN "dead" ELSE "check"]
    /\ UNCHANGED <<osa, nsess, acquisition_thread, nthreads, stop_event, data_queue,
                   update_timer, btn, gui, plotted, nacq, closed>>

WorkerChecks == \E w \in Threads : WorkerCheck(w)
WorkerAcquires == \E w \in Threads : WorkerAcquired(w)
WorkerWaits == \E w \in Threads : WorkerWait(w)

\* ------------------------------------------------- OSA CLI (src/OSA_AP2061A.py)
MaxScans == 3

\* what acquire_once can raise: ApexError from PyApex, RuntimeError for a
\* trace number <= 0, anything else from the socket layer
AcquireFailures == {"ApexError", "RuntimeError", "OtherError"}

\* every except clause returns 0
CliExitCodeAlwaysZero(type) == 0

\* the except clauses of main (lines 385-393)
CliExitCode(type) ==
    IF type = "KeyboardInterrupt" THEN 0
    ELSE IF type \in {"ConnectionError", "ApexError", "RuntimeError"} THEN 2
    ELSE 1

DataItem(n) == [kind |-> "data", scan |-> n, err |-> "none"]
ErrorItem(e) == [kind |-> "error", scan |-> 0, err |-> e]

\* the loop goes on whatever the stop flag says
LoopIgnoresStop(flag) == TRUE

\* while not stop_event.is_set()
LoopGoesOn(flag) == ~flag

\* lines 306-340: osa.configure, the plotter if --plot, then the worker thread
\* is started; an exception leaves the with statement, which closes the session
CliConfigure ==
    /\ cli_pc = "configure"
    /\ \E u \in {"ok", "ValueError", "ApexError", "OtherError", "ImportError"} :
          /\ u = "ImportError" => plotter = "active"
          /\ IF u = "ok"
             THEN /\ cli_pc' = "loop"
                  /\ scan_pc' = "check"
                  /\ UNCHANGED <<cli_session, cli_exit>>
             ELSE /\ cli_pc' = "done"
                  /\ cli_session' = "closed"
                  /\ cli_exit' = IF u = "ImportError" THEN 3 ELSE CliExitCode(u)
                  /\ UNCHANGED scan_pc
    /\ UNCHANGED <<cli_stop_event, cli_queue, scans, scan_idx, worker_error,
                   printed, plotter, cli_intr>>
    /\ UNCHANGED early_error

\* line 346: while not stop_event.is_set() or not data_queue.empty()
CliLoop ==
    /\ cli_pc = "loop"
    /\ cli_pc' = IF ~cli_stop_event \/ cli_queue # <<>> THEN "get" ELSE "finally"
    /\ UNCHANGED <<cli_stop_event, cli_queue, scan_pc, scans, scan_idx,
                   worker_error, printed, plotter, cli_session, cli_intr, cli_exit>>
    /\ UNCHANGED early_error

\* the newest item is taken first
DequeueNewest(q) == [item |-> q[Len(q)], rest |-> SubSeq(q, 1, Len(q) - 1)]

\* data_queue.get(): queue.Queue is first in, first out
Dequeue(q) == [item |-> Head(q), rest |-> Tail(q)]

\* lines 347-375: data_queue.get(timeout=0.1); on queue.Empty a closed plot
\* window sets the stop flag; a data item is counted and printed; an error
\* item is kept in worker_error and sets the stop flag
CliGet ==
    /\ cli_pc = "get"
    /\ cli_pc' = "loop"
    /\ IF cli_queue = <<>>
       THEN /\ cli_stop_event' = (cli_stop_event \/ plotter = "closed")
            /\ UNCHANGED <<cli_queue, scan_idx, printed, worker_error>>
       ELSE LET item == Dequeue(cli_queue).item
            IN  /\ cli_queue' = Dequeue(cli_queue).rest
                /\ IF item.kind = "data"
                   THEN /\ scan_idx' = scan_idx + 1
                        /\ printed' = Append(printed, [idx |-> scan_idx + 1,
                                                       scan |-> item.scan])
                        /\ UNCHANGED <<worker_error, cli_stop_event>>
                   ELSE /\ worker_error' = item.err
                        /\ cli_stop_event' = TRUE
                        /\ UNCHANGED <<scan_idx, printed>>
    /\ UNCHANGED <<scan_pc, scans, plotter, cli_session, cli_intr, cli_exit>>
    /\ UNCHANGED early_error

\* the user closes the plot window: plotter.active becomes false
CliPlotClosed ==
    /\ cli_pc \in {"loop", "get"}
    /\ plotter = "active"
    /\ plotter' = "closed"
    /\ UNCHANGED <<cli_pc, cli_stop_event, cli_queue, scan_pc, scans, scan_idx,
                   worker_error, printed, cli_session, cli_intr, cli_exit>>
    /\ UNCHANGED early_error

\* Ctrl+C in the consumer loop: the KeyboardInterrupt goes through the
\* finally clause (lines 376-380) to the handler of line 385
CliInterrupt ==
    /\ cli_pc \in {"loop", "get"}
    /\ cli_intr' = TRUE
    /\ cli_pc' = "finally"
    /\ UNCHANGED <<cli_stop_event, cli_queue, scan_pc, scans, scan_idx,
                   worker_error, printed, plotter, cli_session, cli_exit>>
    /\ UNCHANGED early_error

\* line 377: stop_event.set()
CliFinally ==
    /\ cli_pc = "finally"
    /\ cli_stop_event' = TRUE
    /\ cli_pc' = "join"
    /\ UNCHANGED <<cli_queue, scan_pc, scans, scan_idx, worker_error, printed,
                   plotter, cli_session, cli_intr, cli_exit>>
    /\ UNCHANGED early_error

\* lines 378-395: worker.join(timeout=5.0) returns because the thread has ended
\* or because five seconds have gone by with its acquire_once still in
\* flight; then the pending KeyboardInterrupt, or raise worker_error, or the
\* normal end of the with statement; the session is closed on each way
CliJoin ==
    /\ cli_pc = "join"
    /\ scan_pc \in {"dead", "acquiring"}
    /\ cli_pc' = "done"
    /\ cli_session' = "closed"
    /\ cli_exit' = IF cli_intr THEN CliExitCode("KeyboardInterrupt")
                   ELSE IF worker_error # "none" THEN CliExitCode(worker_error)
                   ELSE 0
    /\ UNCHANGED <<cli_stop_event, cli_queue, scan_pc, scans, scan_idx,
                   worker_error, printed, plotter, cli_intr>>
    /\ UNCHANGED early_error

\* _scan_worker, loop test, then the call of osa.acquire_once
ScanCheck ==
    /\ scan_pc = "check"
    /\ IF LoopGoesOn(cli_stop_event)
       THEN /\ scans < MaxScans
            /\ scan_pc' = "acquiring"
            /\ scans' = scans + 1
       ELSE /\ scan_pc' = "finally"
            /\ UNCHANGED scans
    /\ UNCHANGED <<cli_pc, cli_stop_event, cli_queue, scan_idx, worker_error,
                   printed, plotter, cli_session, cli_intr, cli_exit>>
    /\ UNCHANGED early_error

\* main is in its consumer loop and has set the stop flag on no occasion
\* (plot window closed, error item, finally clause)
ConsumerPolling == cli_pc \in {"loop", "get"} /\ ~cli_stop_event

\* acquire_once returns and ("data", ...) is queued, or it raises and the
\* except clause queues ("error", exc)
ScanAcquired ==
    /\ scan_pc = "acquiring"
    /\ \E u \in {"ok"} \cup AcquireFailures :
          IF u = "ok"
          THEN /\ cli_queue' = Append(cli_queue, DataItem(scans))
               /\ scan_pc' = "wait"
               /\ UNCHANGED early_error
          ELSE /\ cli_queue' = Append(cli_queue, ErrorItem(u))
               /\ scan_pc' = "finally"
               /\ early_error' = ConsumerPolling
    /\ UNCHANGED <<cli_pc, cli_stop_event, scans, scan_idx, worker_error,
                   printed, plotter, cli_session, cli_intr, cli_exit>>

\* if stop_event.wait(wait_interval): break
ScanWait ==
    /\ scan_pc = "wait"
    /\ scan_pc' = IF cli_stop_event THEN "finally" ELSE "check"
    /\ UNCHANGED <<cli_pc, cli_stop_event, cli_queue, scans, scan_idx,
                   worker_error, printed, plotter, cli_session, cli_intr, cli_exit>>
    /\ UNCHANGED early_error

\* the worker ends without touching the stop flag
FlagAfterWorkerUntouched(flag) == flag

\* finally: stop_event.set()
FlagAfterWorker(flag) == TRUE

\* finally: stop_event.set(); the thread ends
ScanFinally ==
    /\ scan_pc = "finally"
    /\ cli_stop_event' = FlagAfterWorker(cli_stop_event)
    /\ scan_pc' = "dead"
    /\ UNCHANGED <<cli_pc, cli_queue, scans, scan_idx, worker_error, printed,
                   plotter, cli_session, cli_intr, cli_exit>>
    /\ UNCHANGED early_error

\* main after the with statement has been entered (line 305)
CliInit ==
    /\ cli_pc = "configure"
    /\ cli_stop_event = FALSE
    /\ cli_queue = <<>>
    /\ scan_pc = "unborn"
    /\ scans = 0
    /\ scan_idx = 0
    /\ worker_error = "none"
    /\ printed = <<>>
    /\ plotter \in {"none", "active"}
    /\ cli_session = "open"
    /\ cli_intr = FALSE
    /\ cli_exit = 0 - 1
    /\ early_error = FALSE

\* the CLI is not part of the run
CliOff ==
    /\ cli_pc = "off"
    /\ cli_stop_event = FALSE
    /\ cli_queue = <<>>
    /\ scan_pc = "unborn"
    /\ scans = 0
    /\ scan_idx = 0
    /\ worker_error = "none"
    /\ printed = <<>>
    /\ plotter = "none"
    /\ cli_session = "closed"
    /\ cli_intr = FALSE
    /\ cli_exit = 0 - 1
    /\ early_error = FALSE

\* no instrument call has raised in the try body
NoFault == [at |-> "none", kind |-> "ok"]

\* the wall clock: two units per second, a day of 86400 seconds
ClockPerSecond == 2
SecondsPerDay == 86400
Noon == 43200 * ClockPerSecond

\* time.strftime("%H:%M:%S") at clock value t
TimeOfDay(t) ==
    LET d == (t \div ClockPerSecond) % SecondsPerDay
    IN  [h |-> d \div 3600, m |-> (d % 3600) \div 60, s |-> d % 60]

\* the first result of main is printed without a time
NoTime == [h |-> 0 - 1, m |-> 0 - 1, s |-> 0 - 1]

NotExited == [done |-> FALSE, code |-> 0, exc |-> NoExc]

\* main is not part of the run
MainOff ==
    /\ pc = "off"
    /\ check_only = FALSE
    /\ monitor = FALSE
    /\ ticks = 0
    /\ reports = <<>>
    /\ retcode = 0 - 1
    /\ intr = "none"
    /\ exit = NotExited
    /\ fault = NoFault
    /\ now = Noon
    /\ interval = 0

\* ------------------------------------------- PyApex AP1000 OpticalSwitch
VARIABLES
    osw_simulation,  \* self.__Simulation
    osw_slot,        \* self.__SlotNumber
    osw_type,        \* self.__Type: 0 (1X2, 2X2), 1 (1X4), 2 (1X8)
    osw_path,        \* self.__Path
    osw_sent,        \* the commands handed to Send, oldest first
    osw_call,        \* the last method call: its argument, result, exception
    osw_calls        \* number of method calls made

oswVars == <<osw_simulation, osw_slot, osw_type, osw_path, osw_sent, osw_call,
             osw_calls>>

\* method calls made on one switch object
MaxOswCalls == 2

\* Python values handed to SetPath, with their type()
PyStr(text) == [t |-> "str", s |-> text, n |-> 0, b |-> FALSE]
PyInt(k) == [t |-> "int", s |-> <<>>, n |-> k, b |-> FALSE]
PyBool(v) == [t |-> "bool", s |-> <<>>, n |-> 0, b |-> v]
PyNone == [t |-> "NoneType", s |-> <<>>, n |-> 0, b |-> FALSE]

T_crossed == <<"c","r","o","s","s","e","d">>
T_Straight == <<"S","t","r","a","i","g","h","t">>

\* the path names of the SetPath docstring: "A" ... "H"
PathNames == {<<UpperAlpha[i]>> : i \in 1..8}

\* arguments of SetPath explored
PathInputs ==
    {PyStr(name) : name \in PathNames \cup {<<"b">>, T_crossed, T_Straight}}
    \cup {PyInt(k) : k \in {0 - 1, 1, 3, 5, 9}}
    \cup {PyBool(v) : v \in BOOLEAN}
    \cup {PyNone}

\* re.findall(sub, text) != []
Contains(text, sub) ==
    \E i \in 1..(Len(text) - Len(sub) + 1) :
        SubSeq(text, i, i + Len(sub) - 1) = sub

\* the field ID.split("/")[2].split("-")[3] of the identification of the slot
SlotTypeFields ==
    {<<"1","X","2">>, <<"2","x","2">>, <<"1","X","4">>, <<"1","X","8">>}

\* GetType(): 0, 1 or 2 from the type field of the identification
GetType(field) ==
    IF Contains(Lower(field), <<"x","2">>) THEN 0
    ELSE IF Contains(Lower(field), <<"4">>) THEN 1
    ELSE IF Contains(Lower(field), <<"8">>) THEN 2
    ELSE 0 - 1

\* str(n) of an integer
PyStrOfInt(n) == (IF n < 0 THEN <<"-">> ELSE <<>>) \o NatDigits(AbsInt(n))

\* int(text): the number, or a ValueError
PyIntOfStr(text) ==
    LET body == Strip(text)
        neg == Len(body) >= 1 /\ body[1] = "-"
        digits == IF neg THEN SubSeq(body, 2, Len(body)) ELSE body
    IN  IF digits # <<>> /\ \A i \in 1..Len(digits) : IsDigit(digits[i])
        THEN [ok |-> TRUE, n |-> IF neg THEN 0 - DigitsVal(digits) ELSE DigitsVal(digits)]
        ELSE [ok |-> FALSE, n |-> 0]

\* Path.lower() == "B" (lines 121-125, 145-157)
NameIs(P, name) == Lower(P.s) = name

\* only the lower bound is enforced
ClampLowOnly(k, top) == IF k < 1 THEN 1 ELSE k

\* lines 130-135, 162-167: an integer outside 1..top goes to the nearest bound
Clamp(k, top) == IF k < 1 THEN 1 ELSE IF k > top THEN top ELSE k

\* lines 96-113: the path SetPath selects on a 1X2 / 2X2 switch
SetPathNX2(P) ==
    IF P.t = "str" THEN (IF Lower(P.s) = T_crossed THEN 1 ELSE 0)
    ELSE IF P.t = "int" THEN (IF P.n = 1 THEN 1 ELSE 0)
    ELSE IF P.t = "bool" THEN (IF P.b THEN 1 ELSE 0)
    ELSE 0

\* lines 120-137: the path SetPath selects on a 1X4 switch
SetPath1X4(P) ==
    IF P.t = "str"
    THEN (IF NameIs(P, <<"B">>) THEN 2
          ELSE IF NameIs(P, <<"C">>) THEN 3
          ELSE IF NameIs(P, <<"D">>) THEN 4
          ELSE 1)
    ELSE IF P.t = "int" THEN Clamp(P.n, 4)
    ELSE 1

\* lines 144-169: the path SetPath selects on a 1X8 switch
SetPath1X8(P) ==
    IF P.t = "str"
    THEN (IF NameIs(P, <<"B">>) THEN 2
          ELSE IF NameIs(P, <<"C">>) THEN 3
          ELSE IF NameIs(P, <<"D">>) THEN 4
          ELSE IF NameIs(P, <<"E">>) THEN 5
          ELSE IF NameIs(P, <<"F">>) THEN 6
          ELSE IF NameIs(P, <<"G">>) THEN 7
          ELSE IF NameIs(P, <<"H">>) THEN 8
          ELSE 1)
    ELSE IF P.t = "int" THEN Clamp(P.n, 8)
    ELSE 1

SetPathValue(type, P) ==
    CASE type = 0 -> SetPathNX2(P)
      [] type = 1 -> SetPath1X4(P)
      [] type = 2 -> SetPath1X8(P)

\* str(self.__SlotNumber).zfill(2)
SlotText(slot) == ZeroPad(PyStrOfInt(slot), 2)

\* lines 116, 140, 172: the command text, piece by piece
SetPathCommand(type, slot, path) ==
    (CASE type = 0 -> <<"SWI[">> \o SlotText(slot) \o <<"]:CONF">>
       [] type = 1 -> <<"SWx4x8[">> \o SlotText(slot) \o <<"]:OUTx4">>
       [] type = 2 -> <<"SWx4x8[">> \o SlotText(slot) \o <<"]:OUTx8">>)
    \o PyStrOfInt(path) \o <<"\n">>

\* lines 195, 199, 203
GetPathCommand(type, slot) ==
    (CASE type = 0 -> <<"SWI[">> \o SlotText(slot) \o <<"]:CONF?">>
       [] type = 1 -> <<"SWx4x8[">> \o SlotText(slot) \o <<"]:GETx4?">>
       [] type = 2 -> <<"SWx4x8[">> \o SlotText(slot) \o <<"]:GETx8?">>)
    \o <<"\n">>

\* texts Receive may hand back to GetPath: a path with the line end (after a
\* three character prefix on 1X4 and 1X8), or nothing
PathReplies(type) ==
    IF type = 0
    THEN {<<"0","\n">>, <<"1","\n">>, <<>>}
    ELSE {<<"x","4","=">> \o PyStrOfInt(k) \o <<"\n">> : k \in {1, 4}} \cup {<<>>}

\* Receive(...)[3:] on 1X4 and 1X8 (lines 201, 205), the whole text otherwise
ReplyPath(type, reply) ==
    IF type = 0 THEN reply ELSE SubSeq(reply, 4, Len(reply))

\* Path[:-1]
ButLast(text) == SubSeq(text, 1, Len(text) - 1)

OswCall(method, arg, result, exc) ==
    [method |-> method, arg |-> arg, result |-> result, raised |-> exc]

NoOswCall == OswCall("none", PyNone, 0, "none")

\* SetPath(Path), lines 96-173
SetPath ==
    /\ osw_calls < MaxOswCalls
    /\ \E P \in PathInputs :
          /\ osw_path' = SetPathValue(osw_type, P)
          /\ osw_sent' = IF osw_simulation THEN osw_sent
                         ELSE Append(osw_sent,
                                     SetPathCommand(osw_type, osw_slot, osw_path'))
          /\ osw_call' = OswCall("SetPath", P, 0, "none")
    /\ osw_calls' = osw_calls + 1
    /\ UNCHANGED <<osw_simulation, osw_slot, osw_type>>

\* GetPath() in simulation mode, lines 191-192 and 207-209
GetPathSimulated ==
    /\ osw_calls < MaxOswCalls
    /\ osw_simulation
    /\ LET Path == PyStrOfInt(osw_path) \o <<"\n">>
           parsed == PyIntOfStr(ButLast(Path))
       IN  /\ osw_path' = IF parsed.ok THEN parsed.n ELSE osw_path
           /\ osw_call' = IF parsed.ok
                          THEN OswCall("GetPath", PyNone, parsed.n, "none")
                          ELSE OswCall("GetPath", PyNone, 0, "ValueError")
    /\ osw_calls' = osw_calls + 1
    /\ UNCHANGED <<osw_simulation, osw_slot, osw_type, osw_sent>>

\* GetPath() on the equipment, lines 194-209
GetPathQueried ==
    /\ osw_calls < MaxOswCalls
    /\ ~osw_simulation
    /\ osw_sent' = Append(osw_sent, GetPathCommand(osw_type, osw_slot))
    /\ \E reply \in PathReplies(osw_type) :
          LET parsed == PyIntOfStr(ButLast(ReplyPath(osw_type, reply)))
          IN  /\ osw_path' = IF parsed.ok THEN parsed.n ELSE osw_path
              /\ osw_call' = IF parsed.ok
                             THEN OswCall("GetPath", PyNone, parsed.n, "none")
                             ELSE OswCall("GetPath", PyNone, 0, "ValueError")
    /\ osw_calls' = osw_calls + 1
    /\ UNCHANGED <<osw_simulation, osw_slot, osw_type>>

\* the object after __init__ (lines 13-17)
OswInit ==
    /\ osw_simulation \in BOOLEAN
    /\ osw_slot \in {1, 12}
    /\ osw_type \in {GetType(field) : field \in SlotTypeFields}
    /\ osw_path = 0
    /\ osw_sent = <<>>
    /\ osw_call = NoOswCall
    /\ osw_calls = 0

\* no optical switch is part of the run
OswOff ==
    /\ osw_simulation = FALSE
    /\ osw_slot = 0
    /\ osw_type = 0 - 1
    /\ osw_path = 0
    /\ osw_sent = <<>>
    /\ osw_call = NoOswCall
    /\ osw_calls = 0

\* ------------------------------------- SA_FSV30 markers (instruments/sa_fsv30.py)
VARIABLES
    sa_markers,     \* SA_FSV30._markers: [cmd, freq] pairs in list order
    sa_readings,    \* what the last acquire_once returned (<<>> when it raised)
    sa_last_set,    \* per marker number: freq_hz of the last set_marker that returned (0: none)
    sa_registered   \* marker numbers in the order their first set_marker returned

mrkVars == <<sa_markers, sa_readings, sa_last_set, sa_registered>>

\* marker_num as documented (1-4), and the frequencies explored
MarkerNums == 1..4
MarkerFreqs == {10, 20}

\* marker_cmd = f"CALC:MARK{marker_num}"
MarkerCmd(marker_num) ==
    <<"C","A","L","C",":","M","A","R","K">> \o PyStrOfInt(marker_num)

\* set_marker: the two writes, each the marker_cmd followed by the suffix
SetMarkerCommands(marker_cmd) ==
    <<Cmd(":STAT ON", marker_cmd), Cmd(":X", marker_cmd)>>

\* every set_marker appends a pair
StoreMarkerAlwaysAppends(markers, marker_cmd, freq_hz) ==
    Append(markers, [cmd |-> marker_cmd, freq |-> freq_hz])

\* set_marker: the loop over self._markers that replaces the first pair with
\* the same marker_cmd, or the append when there is none
StoreMarker(markers, marker_cmd, freq_hz) ==
    LET found == {i \in 1..Len(markers) : markers[i].cmd = marker_cmd}
    IN  IF found # {}
        THEN [markers EXCEPT ![CHOOSE i \in found : \A j \in found : i <= j] =
                 [cmd |-> marker_cmd, freq |-> freq_hz]]
        ELSE Append(markers, [cmd |-> marker_cmd, freq |-> freq_hz])

\* SA_FSV30.set_marker
SaSetMarker ==
    \E marker_num \in MarkerNums, freq_hz \in MarkerFreqs :
        IF sa_instr = "none"
        THEN /\ sa_call' = Call("set_marker", <<>>, OtherExc("RuntimeError"))
             /\ UNCHANGED <<sa_instr, osa_call, mrkVars>>
        ELSE \E r \in Runs(2, SaFailures) :
                LET marker_cmd == MarkerCmd(marker_num)
                IN  /\ sa_call' = Call("set_marker",
                                       Outcomes(SetMarkerCommands(marker_cmd),
                                                r.failAt, r.kind),
                                       IF r.failAt = 0 THEN NoExc ELSE OtherExc(r.kind))
                    /\ IF r.failAt = 0
                       THEN /\ sa_markers' = StoreMarker(sa_markers, marker_cmd, freq_hz)
                            /\ sa_last_set' = [sa_last_set EXCEPT ![marker_num] = freq_hz]
                            /\ sa_registered' =
                                  IF sa_last_set[marker_num] = 0
                                  THEN Append(sa_registered, marker_num)
                                  ELSE sa_registered
                       ELSE UNCHANGED <<sa_markers, sa_last_set, sa_registered>>
                    /\ UNCHANGED <<sa_instr, osa_call, sa_readings>>

\* acquire_once: INIT:IMM, *OPC?, then the X? and Y? queries of each stored
\* marker, in list order
AcquireCommands(markers) ==
    <<Cmd("INIT:IMM", <<>>), Cmd("*OPC?", <<>>)>>
    \o [i \in 1..(2 * Len(markers)) |->
           IF i % 2 = 1 THEN Cmd(":X?", markers[(i + 1) \div 2].cmd)
           ELSE Cmd(":Y?", markers[i \div 2].cmd)]

\* marker_num = int(marker_cmd[-1]): the last character of a marker_cmd is a
\* digit, so int raises nothing
MarkerNumOf(marker_cmd) == PyIntOfStr(<<marker_cmd[Len(marker_cmd)]>>).n

\* acquire_once: readings.append((marker_num, freq, level)) for each stored
\* marker; freq and level are the replies to the two queries
Readings(markers) ==
    [i \in 1..Len(markers) |->
        [num |-> MarkerNumOf(markers[i].cmd), freq |-> "X?", level |-> "Y?"]]

\* SA_FSV30.acquire_once
SaAcquireOnce ==
    IF sa_instr = "none"
    THEN /\ sa_call' = Call("acquire_once", <<>>, OtherExc("RuntimeError"))
         /\ sa_readings' = <<>>
         /\ UNCHANGED <<sa_instr, osa_call, sa_markers, sa_last_set, sa_registered>>
    ELSE \E r \in Runs(Len(AcquireCommands(sa_markers)), SaFailures) :
            /\ sa_call' = Call("acquire_once",
                               Outcomes(AcquireCommands(sa_markers), r.failAt, r.kind),
                               IF r.failAt = 0 THEN NoExc ELSE OtherExc(r.kind))
            /\ sa_readings' = IF r.failAt = 0 THEN Readings(sa_markers) ELSE <<>>
            /\ UNCHANGED <<sa_instr, osa_call, sa_markers, sa_last_set, sa_registered>>

\* SA_FSV30.__init__: self._markers = []
MarkersInit ==
    /\ sa_markers = <<>>
    /\ sa_readings = <<>>
    /\ sa_last_set = [n \in MarkerNums |-> 0]
    /\ sa_registered = <<>>

\* no marker is part of the run
MrkOff == MarkersInit

\* ---------------------------------------------------- SAPage (ui/pages/sa_page.py)
VARIABLES
    sap_sa,            \* SAPage.sa: 0 (None) or the number of the SA_FSV30 object
    sap_nsess,         \* SA_FSV30 objects created by the page so far
    sap_instr,         \* per object: its _instr, "none" or "open"
    sap_is_acquiring,  \* SAPage.is_acquiring
    sap_update_timer,  \* SAPage.update_timer is active
    sap_btn,           \* isEnabled() of the four buttons
    sap_started,       \* per object: a Start click configured it and no Stop followed
    sap_acquired,      \* acquisitions made on timer ticks: [sess, started, calls]
    sap_closed         \* closeEvent has run

sapVars == <<sap_sa, sap_nsess, sap_instr, sap_is_acquiring, sap_update_timer,
             sap_btn, sap_started, sap_acquired, sap_closed>>

\* SA_FSV30 objects one page creates
MaxSaSessions == 2

SaSessions == 1..MaxSaSessions

\* SAPage.__init__ and _init_ui
SaPageInit ==
    /\ sap_sa = 0
    /\ sap_nsess = 0
    /\ sap_instr = [s \in SaSessions |-> "none"]
    /\ sap_is_acquiring = FALSE
    /\ sap_update_timer = FALSE
    /\ sap_btn = [connect |-> TRUE, disconnect |-> FALSE, start |-> FALSE,
                  stop |-> FALSE]
    /\ sap_started = [s \in SaSessions |-> FALSE]
    /\ sap_acquired = {}
    /\ sap_closed = FALSE

\* no SA page is part of the run
SapOff ==
    /\ sap_sa = 0
    /\ sap_nsess = 0
    /\ sap_instr = [s \in SaSessions |-> "none"]
    /\ sap_is_acquiring = FALSE
    /\ sap_update_timer = FALSE
    /\ sap_btn = [connect |-> FALSE, disconnect |-> FALSE, start |-> FALSE,
                  stop |-> FALSE]
    /\ sap_started = [s \in SaSessions |-> FALSE]
    /\ sap_acquired = {}
    /\ sap_closed = TRUE

\* SAPage._on_connect_clicked: self.sa = SA_FSV30(ip=ip); self.sa.connect();
\* the buttons change only when connect returned
SaClickConnect ==
    /\ ~sap_closed
    /\ sap_btn.connect
    /\ sap_nsess < MaxSaSessions
    /\ \E r \in Runs(Len(SaConnectCommands), SaFailures) :
        LET new == sap_nsess + 1
        IN  /\ sap_nsess' = new
            /\ sap_sa' = new
            /\ sap_instr' = [sap_instr EXCEPT ![new] = SaInstrAfterConnect(r)]
            /\ sap_btn' = IF r.failAt = 0
                          THEN [sap_btn EXCEPT !.connect = FALSE, !.disconnect = TRUE,
                                               !.start = TRUE]
                          ELSE sap_btn
            /\ UNCHANGED <<sap_is_acquiring, sap_update_timer, sap_started,
                           sap_acquired, sap_closed>>

\* SAPage._on_disconnect_clicked as a step from the page's state: closeOk is
\* whether RsInstrument.close returned; when it raised the handler is left at
\* that statement
SaPageDisconnect(sa, instr, buttons, closeOk) ==
    IF sa # 0 /\ instr[sa] = "open" /\ ~closeOk
    THEN [sa |-> sa, instr |-> instr, btn |-> buttons]
    ELSE [sa |-> 0,
          instr |-> IF sa # 0 THEN [instr EXCEPT ![sa] = "none"] ELSE instr,
          btn |-> [connect |-> TRUE, disconnect |-> FALSE, start |-> FALSE,
                   stop |-> FALSE]]

\* SAPage._on_disconnect_clicked
SaClickDisconnect ==
    /\ ~sap_closed
    /\ sap_btn.disconnect
    /\ \E closeOk \in BOOLEAN :
        LET after == SaPageDisconnect(sap_sa, sap_instr, sap_btn, closeOk)
        IN  /\ sap_sa' = after.sa
            /\ sap_instr' = after.instr
            /\ sap_btn' = after.btn
    /\ UNCHANGED <<sap_nsess, sap_is_acquiring, sap_update_timer, sap_started,
                   sap_acquired, sap_closed>>

\* SAPage._on_start_clicked: sa.configure, set_marker(1, ..), set_marker(2, ..)
\* in order
SaStartCommands ==
    SaConfigureCommands \o SetMarkerCommands(MarkerCmd(1))
    \o SetMarkerCommands(MarkerCmd(2))

\* SAPage._on_start_clicked
SaClickStart ==
    /\ ~sap_closed
    /\ sap_btn.start
    /\ IF sap_sa = 0
       THEN UNCHANGED <<sap_is_acquiring, sap_update_timer, sap_btn, sap_started>>
       ELSE \E r \in Runs(Len(SaStartCommands), SaFailures) :
              IF sap_instr[sap_sa] = "open" /\ r.failAt = 0
              THEN /\ sap_is_acquiring' = TRUE
                   /\ sap_update_timer' = TRUE
                   /\ sap_btn' = [sap_btn EXCEPT !.start = FALSE, !.stop = TRUE]
                   /\ sap_started' = [sap_started EXCEPT ![sap_sa] = TRUE]
              ELSE UNCHANGED <<sap_is_acquiring, sap_update_timer, sap_btn,
                               sap_started>>
    /\ UNCHANGED <<sap_sa, sap_nsess, sap_instr, sap_acquired, sap_closed>>

\* the session the page holds is not started any more
StoppedSessions(sa, started) ==
    IF sa # 0 THEN [started EXCEPT ![sa] = FALSE] ELSE started

\* SAPage._on_stop_clicked
SaClickStop ==
    /\ ~sap_closed
    /\ sap_btn.stop
    /\ sap_is_acquiring' = FALSE
    /\ sap_update_timer' = FALSE
    /\ sap_btn' = [sap_btn EXCEPT !.start = TRUE, !.stop = FALSE]
    /\ sap_started' = StoppedSessions(sap_sa, sap_started)
    /\ UNCHANGED <<sap_sa, sap_nsess, sap_instr, sap_acquired, sap_closed>>

\* SAPage._on_acquire: if not self.sa or not self.is_acquiring: return
AcquireGuard == sap_sa # 0 /\ sap_is_acquiring

\* SAPage._on_acquire, run by update_timer.timeout: get_trace_data, then
\* acquire_once unless get_trace_data raised; an object without _instr raises
\* before it sends anything
SaOnAcquire ==
    /\ ~sap_closed
    /\ sap_update_timer
    /\ IF AcquireGuard /\ sap_instr[sap_sa] = "open"
       THEN \E calls \in {<<"get_trace_data">>, <<"get_trace_data", "acquire_once">>} :
              sap_acquired' = sap_acquired \cup
                  {[sess |-> sap_sa, started |-> sap_started[sap_sa], calls |-> calls]}
       ELSE UNCHANGED sap_acquired
    /\ UNCHANGED <<sap_sa, sap_nsess, sap_instr, sap_is_acquiring, sap_update_timer,
                   sap_btn, sap_started, sap_closed>>

\* SAPage.closeEvent: _on_stop_clicked(), then _on_disconnect_clicked()
SaCloseEvent ==
    /\ ~sap_closed
    /\ sap_closed' = TRUE
    /\ sap_is_acquiring' = FALSE
    /\ sap_update_timer' = FALSE
    /\ sap_started' = StoppedSessions(sap_sa, sap_started)
    /\ \E closeOk \in BOOLEAN :
        LET stopped == [sap_btn EXCEPT !.start = TRUE, !.stop = FALSE]
            after == SaPageDisconnect(sap_sa, sap_instr, stopped, closeOk)
        IN  /\ sap_sa' = after.sa
            /\ sap_instr' = after.instr
            /\ sap_btn' = after.btn
    /\ UNCHANGED <<sap_nsess, sap_acquired>>

vars == <<afgLibVars, afgMainVars, drvVars, pageVars, cliVars, oswVars,
          mrkVars, sapVars>>

NextVerify ==
    \/ LibConfigureWrite /\ UNCHANGED <<afgMainVars, drvVars, pageVars, cliVars, oswVars, mrkVars, sapVars>>
    \/ CallVerify /\ UNCHANGED <<afgMainVars, drvVars, pageVars, cliVars, oswVars, mrkVars, sapVars>>
    \/ LibVerifyQuery /\ UNCHANGED <<afgMainVars, drvVars, pageVars, cliVars, oswVars, mrkVars, sapVars>>

InitVerify ==
    /\ InitLib
    /\ MainOff
    /\ DriversOff
    /\ PageOff
    /\ CliOff
    /\ OswOff
    /\ MrkOff
    /\ SapOff

SpecVerify == InitVerify /\ [][NextVerify]_vars

\* ------------------------------------------------------------ AFG main
\* main builds its ChannelConfig with function="SIN" and the parsed arguments
MainConfigs ==
    {DefaultConfig,
     [DefaultConfig EXCEPT !.frequency_hz = Num(1500 * UnitsPerOne + 32),
                           !.offset_v = Num(0 - 64), !.load = T_inf]}

\* answers explored while main runs: the configured value, an output that is
\* off, or a failure of the query
MainQueryOutcomes(i, c) ==
    {[u |-> "ok", text |-> t] :
        t \in {CHOOSE r \in Responses(i, c) :
                  r = (CASE i = 1 -> c.function
                         [] i \in NumericFields -> FormatFloat(ExpectedNumber(i, c))
                         [] i = 5 -> c.load
                         [] i = 6 -> T_1
                         [] i = 7 -> T_NoError)}
              \cup (IF i = 6 THEN {T_0} ELSE {})}
    \cup {[u |-> f, text |-> <<>>] : f \in QueryFailures}

\* values of --monitor explored: half a second and one second
Intervals == {1, ClockPerSecond}

\* wall clock when main starts: noon, or 23:59:58.5
StartTimes == {Noon, (SecondsPerDay - 2) * ClockPerSecond + 1}

\* the finally block goes straight to inst.close()
ShutdownSkipsOutputs == "inst_close"

\* first statement of the finally block (lines 303-306)
ShutdownEntry == IF check_only THEN "off2" ELSE "off1"

\* an exception raised in the try body is dropped and main carries on
BodyHandlerSwallows(exc) == "settle"

\* where an exception raised in the try body of main goes: the
\* VisaCommandError handler, or straight to the finally block
BodyHandler(exc) == IF exc.type = "VisaCommandError" THEN "handler" ELSE ShutdownEntry

\* the frame of verify_channel_one is gone
VerifyDropped ==
    /\ vstate' = "idle"
    /\ vidx' = 1
    /\ ok' = TRUE
    /\ diagnostics' = <<>>
    /\ vresp' = <<>>

Exited(code, exc) == [done |-> TRUE, code |-> code, exc |-> exc]

\* the exception of a failing inst.close() / rm.close()
CloseExc(type, what) ==
    [OtherExc(type) EXCEPT !.operation = "close", !.command = what]

\* line 257: idn = io.query("*IDN?"), then lines 260-267
MainIdn ==
    /\ pc = "idn"
    /\ \E u \in InstOutcomes :
          LET command == Cmd("*IDN?", <<>>)
              exc == IoRaises("query", command, u)
          IN  /\ wire' = Append(wire, Sent("query", command))
              /\ IF exc # NoExc
                 THEN /\ pc' = BodyHandler(exc)
                      /\ raised' = exc
                      /\ fault' = [at |-> "idn", kind |-> u]
                      /\ UNCHANGED <<cstate, cidx, vstate, vidx, ok, diagnostics, vresp>>
                 ELSE IF check_only
                 THEN /\ pc' = "verify"
                      /\ VerifyEnter
                      /\ UNCHANGED <<cstate, cidx, raised, fault>>
                 ELSE /\ pc' = "configure"
                      /\ cstate' = "running"
                      /\ cidx' = 1
                      /\ UNCHANGED <<vstate, vidx, ok, diagnostics, vresp, raised, fault>>
    /\ UNCHANGED <<cfg, reset, check_only, monitor, ticks, reports, retcode, intr, exit,
                   now, interval>>

\* line 261: configure_channel_one(io, cfg, reset=args.reset), write by write
MainConfigure ==
    /\ pc = "configure"
    /\ \E u \in InstOutcomes :
          /\ ConfigureWrite(u)
          /\ fault' = IF u = "ok" THEN fault ELSE [at |-> "configure", kind |-> u]
    /\ pc' = IF cstate' = "done" THEN "settle"
             ELSE IF cstate' = "raised" THEN BodyHandler(raised')
             ELSE "configure"
    /\ UNCHANGED <<check_only, monitor, ticks, reports, retcode, intr, exit, now, interval>>

\* lines 262-267: time.sleep(0.2), then the call of verify_channel_one
MainSettle ==
    /\ pc = "settle"
    /\ pc' = "verify"
    /\ VerifyEnter
    /\ UNCHANGED <<cfg, reset, wire, cstate, cidx, raised>>
    /\ UNCHANGED <<check_only, monitor, ticks, reports, retcode, intr, exit, fault, now, interval>>

\* line 267 and line 281: verify_channel_one, query by query
MainVerify ==
    /\ pc \in {"verify", "monitor_verify"}
    /\ vstate = "running"
    /\ \E o \in MainQueryOutcomes(vidx, cfg) : VerifyQuery(o)
    /\ pc' = IF vstate' = "returned"
             THEN (IF pc = "verify" THEN "report" ELSE "monitor_report")
             ELSE pc
    /\ UNCHANGED <<check_only, monitor, ticks, reports, retcode, intr, exit, fault, now, interval>>

\* lines 268-276: print the diagnostics and the result, then monitor or finish
MainReport ==
    /\ pc = "report"
    /\ reports' = Append(reports, [tick |-> 0, ok |-> ok, stamp |-> NoTime])
    /\ pc' = IF monitor THEN "monitor_sleep" ELSE ShutdownEntry
    /\ VerifyDropped
    /\ UNCHANGED <<cfg, reset, wire, cstate, cidx, raised>>
    /\ UNCHANGED <<check_only, monitor, ticks, retcode, intr, exit, fault, now, interval>>

\* lines 279-281: time.sleep(args.monitor) returns, verify_channel_one is called
MainMonitorSleep ==
    /\ pc = "monitor_sleep"
    /\ ticks < MaxTicks
    /\ pc' = "monitor_verify"
    /\ now' = now + interval
    /\ VerifyEnter
    /\ UNCHANGED <<cfg, reset, wire, cstate, cidx, raised>>
    /\ UNCHANGED <<check_only, monitor, ticks, reports, retcode, intr, exit, fault, interval>>

\* the result of a tick is printed over and over
AfterTickReportsAgain == "monitor_report"

\* while True: after the result of a tick, back to time.sleep (line 280)
AfterTick == "monitor_sleep"

\* lines 282-285: the timestamped result of one tick
MainMonitorReport ==
    /\ pc = "monitor_report"
    /\ ticks' = ticks + 1
    /\ reports' = Append(reports, [tick |-> ticks + 1, ok |-> ok,
                                   stamp |-> TimeOfDay(now)])
    /\ pc' = AfterTick
    /\ VerifyDropped
    /\ UNCHANGED <<cfg, reset, wire, cstate, cidx, raised>>
    /\ UNCHANGED <<check_only, monitor, retcode, intr, exit, fault, now, interval>>

\* the handler of VisaCommandError returns 0
HandlerReturnsZero(exc) == 0

\* line 296: return 4
HandlerReturn(exc) == 4

\* lines 289-296: except VisaCommandError: query SYST:ERR? (any Exception of
\* it is passed over), return 4
MainHandler ==
    /\ pc = "handler"
    /\ \E u \in InstOutcomes :
          wire' = Append(wire, Sent("query", Cmd("SYST:ERR?", <<>>)))
    /\ retcode' = HandlerReturn(raised)
    /\ raised' = NoExc
    /\ pc' = ShutdownEntry
    /\ UNCHANGED <<cfg, reset, cstate, cidx, vstate, vidx, ok, diagnostics, vresp>>
    /\ UNCHANGED <<check_only, monitor, ticks, reports, intr, exit, fault, now, interval>>

\* lines 303-305: if not args.check_only: io.write("OUTPut1:STATe OFF"); an
\* Exception skips the second write
MainOff1 ==
    /\ pc = "off1"
    /\ \E u \in InstOutcomes :
          /\ wire' = Append(wire, Sent("write", Cmd("OUTPut1:STATe", T_OFF)))
          /\ pc' = IF u = "ok" THEN "off2" ELSE "inst_close"
    /\ UNCHANGED <<cfg, reset, cstate, cidx, vstate, vidx, ok, diagnostics, vresp, raised>>
    /\ UNCHANGED <<check_only, monitor, ticks, reports, retcode, intr, exit, fault, now, interval>>

\* lines 306-308: io.write("OUTPut2:STATe OFF"), except Exception: pass
MainOff2 ==
    /\ pc = "off2"
    /\ \E u \in InstOutcomes :
          wire' = Append(wire, Sent("write", Cmd("OUTPut2:STATe", T_OFF)))
    /\ pc' = "inst_close"
    /\ UNCHANGED <<cfg, reset, cstate, cidx, vstate, vidx, ok, diagnostics, vresp, raised>>
    /\ UNCHANGED <<check_only, monitor, ticks, reports, retcode, intr, exit, fault, now, interval>>

\* lines 309-310: inst.close(); what it raises replaces a waiting return or
\* exception and leaves through the inner finally
MainInstClose ==
    /\ pc = "inst_close"
    /\ \E u \in InstOutcomes :
          /\ wire' = Append(wire, Sent("close", Cmd("inst", <<>>)))
          /\ raised' = IF u = "ok" THEN raised ELSE CloseExc(u, "inst")
          /\ retcode' = IF u = "ok" THEN retcode ELSE 0 - 1
    /\ pc' = "rm_close"
    /\ UNCHANGED <<cfg, reset, cstate, cidx, vstate, vidx, ok, diagnostics, vresp>>
    /\ UNCHANGED <<check_only, monitor, ticks, reports, intr, exit, fault, now, interval>>

\* lines 311-315: rm.close(), then the waiting exception, the waiting return
\* value, or return 0
MainRmClose ==
    /\ pc = "rm_close"
    /\ \E u \in InstOutcomes :
          /\ wire' = Append(wire, Sent("close", Cmd("rm", <<>>)))
          /\ raised' = IF u = "ok" THEN raised ELSE CloseExc(u, "rm")
          /\ retcode' = IF u = "ok" THEN retcode ELSE 0 - 1
    /\ exit' = IF raised' # NoExc THEN Exited(0 - 1, raised')
               ELSE IF retcode' # 0 - 1 THEN Exited(retcode', NoExc)
               ELSE Exited(0, NoExc)
    /\ pc' = "exit"
    /\ UNCHANGED <<cfg, reset, cstate, cidx, vstate, vidx, ok, diagnostics, vresp>>
    /\ UNCHANGED <<check_only, monitor, ticks, reports, intr, fault, now, interval>>

TryBody == {"idn", "configure", "settle", "verify", "report"}
MonitorLoop == {"monitor_sleep", "monitor_verify", "monitor_report"}

\* only the try body has a handler for KeyboardInterrupt
InterruptCaughtInBodyOnly(at) == at \in TryBody

\* the statements whose KeyboardInterrupt has a handler: the monitor loop
\* (line 286) and the try body (line 300)
InterruptCaught(at) == at \in TryBody \cup MonitorLoop

\* Ctrl+C: a KeyboardInterrupt raised at the statement main is at.  Lines 286
\* and 300 catch it in the monitor loop and in the try body; nothing catches it
\* in the VisaCommandError handler or in the finally block, whose
\* "except Exception" lets it through.
Interrupt ==
    /\ pc \notin {"off", "exit"}
    /\ intr' = pc
    /\ IF InterruptCaught(pc)
       THEN /\ pc' = ShutdownEntry
            /\ raised' = NoExc
            /\ UNCHANGED <<retcode, exit>>
       ELSE IF pc \in {"handler"} \cup TryBody \cup MonitorLoop
       THEN /\ pc' = ShutdownEntry
            /\ raised' = OtherExc("KeyboardInterrupt")
            /\ UNCHANGED <<retcode, exit>>
       ELSE IF pc = "inst_close"
       THEN /\ pc' = "rm_close"
            /\ raised' = OtherExc("KeyboardInterrupt")
            /\ retcode' = 0 - 1
            /\ UNCHANGED exit
       ELSE /\ pc' = "exit"
            /\ raised' = OtherExc("KeyboardInterrupt")
            /\ retcode' = 0 - 1
            /\ exit' = Exited(0 - 1, raised')
    /\ cstate' = IF cstate = "running" THEN "raised" ELSE cstate
    /\ VerifyDropped
    /\ UNCHANGED <<cfg, reset, wire, cidx>>
    /\ UNCHANGED <<check_only, monitor, ticks, reports, fault, now, interval>>

\* the state of main after open_instrument (line 253)
InitMain ==
    /\ cfg \in MainConfigs
    /\ reset \in BOOLEAN
    /\ wire = <<>>
    /\ cstate = "idle"
    /\ cidx = 1
    /\ vstate = "idle"
    /\ vidx = 1
    /\ ok = TRUE
    /\ diagnostics = <<>>
    /\ vresp = <<>>
    /\ raised = NoExc
    /\ pc = "idn"
    /\ check_only \in BOOLEAN
    /\ monitor \in BOOLEAN
    /\ ticks = 0
    /\ reports = <<>>
    /\ retcode = 0 - 1
    /\ intr = "none"
    /\ exit = NotExited
    /\ fault = NoFault
    /\ interval \in IF monitor THEN Intervals ELSE {0}
    /\ now \in IF monitor THEN StartTimes ELSE {Noon}
    /\ DriversOff
    /\ PageOff
    /\ CliOff
    /\ OswOff
    /\ MrkOff
    /\ SapOff

NextMain ==
    \/ MainIdn /\ UNCHANGED <<drvVars, pageVars, cliVars, oswVars, mrkVars, sapVars>>
    \/ MainConfigure /\ UNCHANGED <<drvVars, pageVars, cliVars, oswVars, mrkVars, sapVars>>
    \/ MainSettle /\ UNCHANGED <<drvVars, pageVars, cliVars, oswVars, mrkVars, sapVars>>
    \/ MainVerify /\ UNCHANGED <<drvVars, pageVars, cliVars, oswVars, mrkVars, sapVars>>
    \/ MainReport /\ UNCHANGED <<drvVars, pageVars, cliVars, oswVars, mrkVars, sapVars>>
    \/ MainMonitorSleep /\ UNCHANGED <<drvVars, pageVars, cliVars, oswVars, mrkVars, sapVars>>
    \/ MainMonitorReport /\ UNCHANGED <<drvVars, pageVars, cliVars, oswVars, mrkVars, sapVars>>
    \/ MainHandler /\ UNCHANGED <<drvVars, pageVars, cliVars, oswVars, mrkVars, sapVars>>
    \/ MainOff1 /\ UNCHANGED <<drvVars, pageVars, cliVars, oswVars, mrkVars, sapVars>>
    \/ MainOff2 /\ UNCHANGED <<drvVars, pageVars, cliVars, oswVars, mrkVars, sapVars>>
    \/ MainInstClose /\ UNCHANGED <<drvVars, pageVars, cliVars, oswVars, mrkVars, sapVars>>
    \/ MainRmClose /\ UNCHANGED <<drvVars, pageVars, cliVars, oswVars, mrkVars, sapVars>>
    \/ Interrupt /\ UNCHANGED <<drvVars, pageVars, cliVars, oswVars, mrkVars, sapVars>>

SpecMain == InitMain /\ [][NextMain]_vars

\* ------------------------------------------- the instrument classes, called
\* configure_channel_one is running; no main, no page
AfgConfiguring ==
    /\ cfg = DefaultConfig
    /\ reset = FALSE
    /\ wire = <<>>
    /\ cstate = "running"
    /\ cidx = 1
    /\ vstate = "idle"
    /\ vidx = 1
    /\ ok = TRUE
    /\ diagnostics = <<>>
    /\ vresp = <<>>
    /\ raised = NoExc

InitDrivers ==
    /\ AfgConfiguring
    /\ MainOff
    /\ DriversOff
    /\ PageOff
    /\ CliOff
    /\ OswOff
    /\ MrkOff
    /\ SapOff

NextDrivers ==
    \/ LibConfigureWrite /\ UNCHANGED <<afgMainVars, drvVars, pageVars, cliVars, oswVars, mrkVars, sapVars>>
    \/ OsaConfigure /\ UNCHANGED <<afgLibVars, afgMainVars, pageVars, cliVars, oswVars, mrkVars, sapVars>>
    \/ OsaClose /\ UNCHANGED <<afgLibVars, afgMainVars, pageVars, cliVars, oswVars, mrkVars, sapVars>>
    \/ SaConnect /\ UNCHANGED <<afgLibVars, afgMainVars, pageVars, cliVars, oswVars, mrkVars, sapVars>>
    \/ SaDisconnect /\ UNCHANGED <<afgLibVars, afgMainVars, pageVars, cliVars, oswVars, mrkVars, sapVars>>
    \/ SaConfigure /\ UNCHANGED <<afgLibVars, afgMainVars, pageVars, cliVars, oswVars, mrkVars, sapVars>>

SpecDrivers == InitDrivers /\ [][NextDrivers]_vars

\* ------------------------------------------------------- the OSA page, run
\* no AFG call is part of the run
AfgOff ==
    /\ cfg = DefaultConfig
    /\ reset = FALSE
    /\ wire = <<>>
    /\ cstate = "idle"
    /\ cidx = 1
    /\ vstate = "idle"
    /\ vidx = 1
    /\ ok = TRUE
    /\ diagnostics = <<>>
    /\ vresp = <<>>
    /\ raised = NoExc

InitOSAPage ==
    /\ AfgOff
    /\ MainOff
    /\ DriversOff
    /\ PageInit
    /\ CliOff
    /\ OswOff
    /\ MrkOff
    /\ SapOff

NextOSAPage ==
    \/ ClickConnect /\ UNCHANGED <<afgLibVars, afgMainVars, drvVars, cliVars, oswVars, mrkVars, sapVars>>
    \/ ClickDisconnect /\ UNCHANGED <<afgLibVars, afgMainVars, drvVars, cliVars, oswVars, mrkVars, sapVars>>
    \/ DisconnectReturn /\ UNCHANGED <<afgLibVars, afgMainVars, drvVars, cliVars, oswVars, mrkVars, sapVars>>
    \/ ClickStart /\ UNCHANGED <<afgLibVars, afgMainVars, drvVars, cliVars, oswVars, mrkVars, sapVars>>
    \/ StartReturn /\ UNCHANGED <<afgLibVars, afgMainVars, drvVars, cliVars, oswVars, mrkVars, sapVars>>
    \/ ClickStop /\ UNCHANGED <<afgLibVars, afgMainVars, drvVars, cliVars, oswVars, mrkVars, sapVars>>
    \/ JoinReturn /\ UNCHANGED <<afgLibVars, afgMainVars, drvVars, cliVars, oswVars, mrkVars, sapVars>>
    \/ CloseEvent /\ UNCHANGED <<afgLibVars, afgMainVars, drvVars, cliVars, oswVars, mrkVars, sapVars>>
    \/ UpdatePlot /\ UNCHANGED <<afgLibVars, afgMainVars, drvVars, cliVars, oswVars, mrkVars, sapVars>>
    \/ WorkerChecks /\ UNCHANGED <<afgLibVars, afgMainVars, drvVars, cliVars, oswVars, mrkVars, sapVars>>
    \/ WorkerAcquires /\ UNCHANGED <<afgLibVars, afgMainVars, drvVars, cliVars, oswVars, mrkVars, sapVars>>
    \/ WorkerWaits /\ UNCHANGED <<afgLibVars, afgMainVars, drvVars, cliVars, oswVars, mrkVars, sapVars>>

SpecOSAPage == InitOSAPage /\ [][NextOSAPage]_vars

\* ------------------------------------------------------- the OSA CLI, run
InitOSACli ==
    /\ AfgOff
    /\ MainOff
    /\ DriversOff
    /\ PageOff
    /\ CliInit
    /\ OswOff
    /\ MrkOff
    /\ SapOff

NextOSACli ==
    \/ CliConfigure /\ UNCHANGED <<afgLibVars, afgMainVars, drvVars, pageVars, oswVars, mrkVars, sapVars>>
    \/ CliLoop /\ UNCHANGED <<afgLibVars, afgMainVars, drvVars, pageVars, oswVars, mrkVars, sapVars>>
    \/ CliGet /\ UNCHANGED <<afgLibVars, afgMainVars, drvVars, pageVars, oswVars, mrkVars, sapVars>>
    \/ CliPlotClosed /\ UNCHANGED <<afgLibVars, afgMainVars, drvVars, pageVars, oswVars, mrkVars, sapVars>>
    \/ CliInterrupt /\ UNCHANGED <<afgLibVars, afgMainVars, drvVars, pageVars, oswVars, mrkVars, sapVars>>
    \/ CliFinally /\ UNCHANGED <<afgLibVars, afgMainVars, drvVars, pageVars, oswVars, mrkVars, sapVars>>
    \/ CliJoin /\ UNCHANGED <<afgLibVars, afgMainVars, drvVars, pageVars, oswVars, mrkVars, sapVars>>
    \/ ScanCheck /\ UNCHANGED <<afgLibVars, afgMainVars, drvVars, pageVars, oswVars, mrkVars, sapVars>>
    \/ ScanAcquired /\ UNCHANGED <<afgLibVars, afgMainVars, drvVars, pageVars, oswVars, mrkVars, sapVars>>
    \/ ScanWait /\ UNCHANGED <<afgLibVars, afgMainVars, drvVars, pageVars, oswVars, mrkVars, sapVars>>
    \/ ScanFinally /\ UNCHANGED <<afgLibVars, afgMainVars, drvVars, pageVars, oswVars, mrkVars, sapVars>>

SpecOSACli == InitOSACli /\ [][NextOSACli]_vars

\* the steps of main from its consumer loop to its return: main is a running
\* thread, data_queue.get and worker.join both have a timeout
CliConsumer ==
    /\ CliLoop \/ CliGet \/ CliFinally \/ CliJoin
    /\ UNCHANGED <<afgLibVars, afgMainVars, drvVars, pageVars, oswVars, mrkVars, sapVars>>

\* the OSA CLI with a main thread that keeps running
SpecOSACliFair == InitOSACli /\ [][NextOSACli]_vars /\ WF_vars(CliConsumer)

\* --------------------------------------- the three monitor loops, one per run
\* one of the programs runs: the AFG script, the OSA page or the OSA CLI
InitMonitors ==
    \/ InitMain
    \/ InitOSAPage
    \/ InitOSACli

NextMonitors ==
    \/ NextMain
    \/ NextOSAPage
    \/ NextOSACli

SpecMonitors == InitMonitors /\ [][NextMonitors]_vars

\* ------------------------------------------------ SA_FSV30 markers
InitSAMarkers ==
    /\ AfgOff
    /\ MainOff
    /\ DriversOff
    /\ PageOff
    /\ CliOff
    /\ OswOff
    /\ MarkersInit
    /\ SapOff

NextSAMarkers ==
    \/ SaConnect /\ UNCHANGED <<afgLibVars, afgMainVars, pageVars, cliVars, oswVars, mrkVars, sapVars>>
    \/ SaDisconnect /\ UNCHANGED <<afgLibVars, afgMainVars, pageVars, cliVars, oswVars, mrkVars, sapVars>>
    \/ SaSetMarker /\ UNCHANGED <<afgLibVars, afgMainVars, pageVars, cliVars, oswVars, sapVars>>
    \/ SaAcquireOnce /\ UNCHANGED <<afgLibVars, afgMainVars, pageVars, cliVars, oswVars, sapVars>>

SpecSAMarkers == InitSAMarkers /\ [][NextSAMarkers]_vars

\* ------------------------------------------------ the SA page
InitSAPage ==
    /\ AfgOff
    /\ MainOff
    /\ DriversOff
    /\ PageOff
    /\ CliOff
    /\ OswOff
    /\ MrkOff
    /\ SaPageInit

NextSAPage ==
    \/ SaClickConnect /\ UNCHANGED <<afgLibVars, afgMainVars, pageVars, cliVars, oswVars, drvVars, mrkVars>>
    \/ SaClickDisconnect /\ UNCHANGED <<afgLibVars, afgMainVars, pageVars, cliVars, oswVars, drvVars, mrkVars>>
    \/ SaClickStart /\ UNCHANGED <<afgLibVars, afgMainVars, pageVars, cliVars, oswVars, drvVars, mrkVars>>
    \/ SaClickStop /\ UNCHANGED <<afgLibVars, afgMainVars, pageVars, cliVars, oswVars, drvVars, mrkVars>>
    \/ SaOnAcquire /\ UNCHANGED <<afgLibVars, afgMainVars, pageVars, cliVars, oswVars, drvVars, mrkVars>>
    \/ SaCloseEvent /\ UNCHANGED <<afgLibVars, afgMainVars, pageVars, cliVars, oswVars, drvVars, mrkVars>>

SpecSAPage == InitSAPage /\ [][NextSAPage]_vars

\* ------------------------------------------------ the optical switch, used
InitSwitch ==
    /\ AfgOff
    /\ MainOff
    /\ DriversOff
    /\ PageOff
    /\ CliOff
    /\ OswInit
    /\ MrkOff
    /\ SapOff

NextSwitch ==
    \/ SetPath /\ UNCHANGED <<afgLibVars, afgMainVars, drvVars, pageVars, cliVars, mrkVars, sapVars>>
    \/ GetPathSimulated /\ UNCHANGED <<afgLibVars, afgMainVars, drvVars, pageVars, cliVars, mrkVars, sapVars>>
    \/ GetPathQueried /\ UNCHANGED <<afgLibVars, afgMainVars, drvVars, pageVars, cliVars, mrkVars, sapVars>>

SpecSwitch == InitSwitch /\ [][NextSwitch]_vars

\* ============================================================ properties
\* the queries the running (or returned) verify_channel_one call has issued
VerifyWire == SubSeq(wire, Len(wire) - Len(vresp) + 1, Len(wire))

AnsweredAll == \A i \in 1..ErrField : vresp[i].u = "ok"

\* the error number of a SYST:ERR? answer: the text before its first comma
ErrorNumberText(t) ==
    IF \E i \in 1..Len(t) : t[i] = ","
    THEN SubSeq(t, 1, (CHOOSE i \in 1..Len(t) :
                          t[i] = "," /\ \A j \in 1..(i - 1) : t[j] # ",") - 1)
    ELSE t

DeviceReportsNoError(t) == ErrorNumberText(Strip(t)) = <<"0">>

\* C1: verify_channel_one returns ok = true exactly when all six field checks
\* passed, no query failed and SYST:ERR? reported no error.
C1_OkIffAllPassed ==
    vstate = "returned" =>
        (ok <=> /\ \A i \in 1..NumFields : diagnostics[i].status = "OK"
                /\ AnsweredAll
                /\ DeviceReportsNoError(vresp[ErrField].text))

C1_Witness ==
    /\ vstate = "returned"
    /\ ok
    /\ cstate = "done"
    /\ \A i \in 1..NumFields : diagnostics[i].status = "OK"

\* C2: whatever queries fail, verify_channel_one raises nothing and its
\* diagnostics hold one line per field plus the SYST:ERR? line, in the declared
\* order; every query is issued, in that order, whether or not earlier ones failed.
C2_OneLinePerField ==
    /\ Len(diagnostics) = Len(vresp)
    /\ \A i \in 1..Len(diagnostics) :
          /\ diagnostics[i].label = Labels[i]
          /\ VerifyWire[i] = [op |-> "query", head |-> VerifyQueries[i], arg |-> <<>>]
    /\ vstate = "running" => Len(diagnostics) = vidx - 1 /\ vidx <= ErrField
    /\ vstate = "returned" => Len(diagnostics) = ErrField /\ raised = NoExc

C2_Witness ==
    /\ vstate = "returned"
    /\ vresp[1].u = "VisaIOError"
    /\ vresp[4].u = "VisaIOError"
    /\ diagnostics[2].status = "OK"
    /\ diagnostics[5].status = "OK"
    /\ Len(diagnostics) = ErrField

\* the argument of the last write of `head` on the wire (<<>> if none)
LastWritten(head) ==
    LET idx == {i \in 1..Len(wire) : wire[i].op = "write" /\ wire[i].head = head}
    IN  IF idx = {} THEN <<>>
        ELSE wire[CHOOSE i \in idx : \A j \in idx : j <= i].arg

\* the answer of an instrument that holds exactly what was written to it
Reflected(i) ==
    CASE i = 1 -> LastWritten("SOUR1:FUNC")
      [] i = 2 -> LastWritten("SOUR1:FREQ")
      [] i = 3 -> LastWritten("SOUR1:VOLT")
      [] i = 4 -> LastWritten("SOUR1:VOLT:OFFS")
      [] i = 5 -> LastWritten("OUTP1:LOAD")
      [] i = 6 -> IF LastWritten("OUTP1") = T_ON THEN T_1 ELSE T_0
      [] i = 7 -> T_NoError

ReflectsAll == \A i \in 1..ErrField : vresp[i] = [u |-> "ok", text |-> Reflected(i)]

ToleranceDenominator(i) ==
    CASE i = 2 -> 2
      [] i = 3 -> 20
      [] i = 4 -> 100

ConfiguredNumber(i) ==
    CASE i = 2 -> cfg.frequency_hz
      [] i = 3 -> cfg.voltage_vpp
      [] i = 4 -> cfg.offset_v

\* |actual - expected| of a compared numeric line, in 1/128
LineDistance(l) == AbsInt(l.actual.value.v - l.expected.value.v)

\* C8: a compared numeric field (frequency, amplitude, offset) carries the number
\* the instrument answered and the configured number, and is marked OK exactly
\* when |actual - expected| <= the tolerance of that field (0.5, 0.05, 0.01);
\* a distance equal to the tolerance is OK.
C8_NumericTolerance ==
    \A i \in NumericFields :
        (i <= Len(diagnostics) /\ diagnostics[i].status \in {"OK", "NG"}) =>
            LET l == diagnostics[i]
            IN  /\ l.expected.value = ConfiguredNumber(i)
                /\ FormatFloat(l.actual.value) = Strip(vresp[i].text)
                /\ l.status = "OK" <=>
                      /\ ~l.actual.value.nan
                      /\ LineDistance(l) * ToleranceDenominator(i) <= UnitsPerOne

C8_Witness ==
    /\ vstate = "returned"
    /\ diagnostics[2].status = "OK"
    /\ LineDistance(diagnostics[2]) * 2 = UnitsPerOne
    /\ diagnostics[3].status = "NG"
    /\ LineDistance(diagnostics[3]) = 7

\* C9: verify_channel_one queries SYST:ERR? once, after the six field queries,
\* and an answer that reports an error makes ok false even when every field
\* check passed.
C9_ErrorQueueLast ==
    /\ \A i \in 1..Len(VerifyWire) :
          VerifyWire[i].head = "SYST:ERR?" <=> i = ErrField
    /\ vstate = "returned" =>
          /\ Len(VerifyWire) = ErrField
          /\ (vresp[ErrField].u = "ok" /\ ~DeviceReportsNoError(vresp[ErrField].text))
                => ~ok

C9_Witness ==
    /\ vstate = "returned"
    /\ \A i \in 1..NumFields : diagnostics[i].status = "OK"
    /\ vresp[ErrField] = [u |-> "ok", text |-> T_DevError]
    /\ ~ok

\* the answer that matches the configuration exactly
ExpectedAnswer(i) ==
    CASE i = 1 -> cfg.function
      [] i \in NumericFields -> FormatFloat(ConfiguredNumber(i))
      [] i = 5 -> cfg.load
      [] i = 6 -> T_1
      [] i = 7 -> T_NoError

\* an answer of field i that does not match the configuration
MismatchAnswers(i) ==
    CASE i = 1 -> {T_SQU}
      [] i = 2 -> {FormatFloat(Num(cfg.frequency_hz.v - 65))}
      [] i = 3 -> {FormatFloat(Num(cfg.voltage_vpp.v + 7))}
      [] i = 4 -> {FormatFloat(Num(cfg.offset_v.v - 2))}
      [] i = 5 -> {T_50, T_INF} \ {Upper(cfg.load)}
      [] i = 6 -> {T_0}

\* the line of field i in the run where every answer matches exactly
AllMatchingLine(i) ==
    CASE i \in {1, 5} ->
            Line(Labels[i], "OK", TextShown(Upper(ExpectedAnswer(i))),
                 TextShown(Upper(ExpectedAnswer(i))), NoExc)
      [] i \in NumericFields ->
            Line(Labels[i], "OK", NumShown(ConfiguredNumber(i)),
                 NumShown(ConfiguredNumber(i)), NoExc)
      [] i = 6 -> Line(Labels[i], "OK", TextShown(T_1), TextShown(T_1), NoExc)
      [] i = 7 -> Line(Labels[i], "RAW", TextShown(T_NoError), TextShown(<<>>), NoExc)

OnlyMismatch(i) ==
    /\ vresp[i].u = "ok"
    /\ vresp[i].text \in MismatchAnswers(i)
    /\ \A j \in (1..ErrField) \ {i} :
          vresp[j] = [u |-> "ok", text |-> ExpectedAnswer(j)]

\* C10: when exactly one field's readback mismatches, every other field matches
\* and the error queue reports no error, ok is false, that field's line alone
\* is marked failed and every other line is the line of the all-matching run.
C10_SingleMismatch ==
    vstate = "returned" =>
        \A i \in 1..NumFields :
            OnlyMismatch(i) =>
                /\ ~ok
                /\ diagnostics[i].status = "NG"
                /\ \A j \in (1..ErrField) \ {i} : diagnostics[j] = AllMatchingLine(j)

C10_Witness ==
    /\ vstate = "returned"
    /\ OnlyMismatch(6)
    /\ vresp[6].text = T_0
    /\ ~ok

\* the statements of the finally block of main
ShutdownBlock == {"off1", "off2", "inst_close", "rm_close"}

IsOutputOff(e) ==
    e.op = "write" /\ e.head \in {"OUTPut1:STATe", "OUTPut2:STATe"} /\ e.arg = T_OFF

\* C3: however main leaves its try body (normal end, *IDN? or configuration
\* failure, Ctrl+C during configure, verify or monitor), it ends with the
\* shutdown sequence: output-OFF writes are attempted (OUTPut1 first unless
\* --check-only), a failing one is passed over, then inst.close() and
\* rm.close() are called, in that order and after every other command.
C3_ShutdownOnEveryExit ==
    (pc = "exit" /\ intr \notin ShutdownBlock) =>
        LET n == Len(wire)
        IN  /\ n >= 3
            /\ wire[n] = [op |-> "close", head |-> "rm", arg |-> <<>>]
            /\ wire[n - 1] = [op |-> "close", head |-> "inst", arg |-> <<>>]
            /\ IsOutputOff(wire[n - 2])
            /\ \A i \in 1..(n - 2) : wire[i].op # "close"
            /\ ~check_only => \E i \in 1..(n - 2) : wire[i].head = "OUTPut1:STATe"

\* Ctrl+C during configure, then a failing OUTPut1 write: OUTPut2 is not
\* written, both close calls are made
C3_Witness ==
    /\ pc = "exit"
    /\ intr = "configure"
    /\ ~check_only
    /\ Len(wire) >= 3
    /\ wire[Len(wire) - 2].head = "OUTPut1:STATe"
    /\ wire[Len(wire)].head = "rm"

\* the exception a call let out to its caller
Raises(call) == call.raised # NoExc

\* C4: closing never raises: OSA_AP2061A.close and SA_FSV30.disconnect return
\* normally whatever the transport's close does (and so does a second call in
\* a row), and the shutdown block of the AFG main lets no exception of
\* inst.close() / rm.close() out.
C4_CloseNeverRaises ==
    /\ osa_call.method = "close" => ~Raises(osa_call)
    /\ sa_call.method = "disconnect" => ~Raises(sa_call)
    /\ pc = "exit" => exit.exc.operation # "close"

\* the transport calls of a call are the first ones of the declared sequence
IsPrefix(sent, commands) ==
    /\ Len(sent) <= Len(commands)
    /\ \A i \in 1..Len(sent) :
          sent[i].cmd = commands[i].head /\ sent[i].arg = commands[i].arg

\* a configure call stopped at its first failing command and raised
FailFast(call, commands) ==
    /\ IsPrefix(call.sent, commands)
    /\ \A i \in 1..Len(call.sent) :
          call.sent[i].u # "ok" => i = Len(call.sent) /\ Raises(call)
    /\ ~Raises(call) => Len(call.sent) = Len(commands)

\* C5: configure is fail-fast: when a configuration command fails, no later
\* command of the sequence is sent and the call raises; for the OSA a
\* rejected channel selection (ApexError) raises ValueError with neither
\* SetCenter nor SetSpan issued; for the AFG the writes on the wire are the
\* commands up to the failing one and the exception is the pending one.
C5_ConfigureFailFast ==
    /\ osa_call.method = "configure" =>
          /\ \E ch \in Channels : FailFast(osa_call, OsaConfigureCommands(ch))
          /\ (osa_call.sent[1].u = "ApexError") =>
                osa_call.raised.type = "ValueError" /\ Len(osa_call.sent) = 1
    /\ (sa_call.method = "configure" /\ sa_call.sent # <<>>) =>
          FailFast(sa_call, SaConfigureCommands)
    /\ cstate = "raised" =>
          /\ raised # NoExc
          /\ Len(wire) = cidx
          /\ \A i \in 1..cidx :
                wire[i] = Sent("write", ConfigureCommands(cfg, reset)[i])
          /\ raised.type = "VisaCommandError" =>
                raised.command = wire[cidx].head /\ raised.operation = "write"
    /\ cstate = "done" => Len(wire) = Len(ConfigureCommands(cfg, reset))

\* the three configure calls have each failed partway: the OSA on its channel
\* selection, the SA on its third command, the AFG on its fourth write
C5_Witness ==
    /\ osa_call.method = "configure"
    /\ Len(osa_call.sent) = 1
    /\ osa_call.raised.type = "ValueError"
    /\ sa_call.method = "configure"
    /\ Len(sa_call.sent) = 3
    /\ Raises(sa_call)
    /\ cstate = "raised"
    /\ cidx = 4

\* the GUI thread is inside a configure or close call on session s
GuiCalls(s) == gui.at \in {"configure", "close"} /\ gui.sess = s

\* thread v is inside an acquire_once call on session s
WorkerCalls(v, s) == workers[v].pc = "acquiring" /\ workers[v].sess = s

\* C6: one thread at a time per OSA session: while an acquisition worker is
\* alive, neither the GUI thread (configure, close) nor another worker
\* (acquire_once) is inside a call on the session that worker uses.
C6_ExclusiveSession ==
    \A w \in Threads :
        Alive(w) =>
            /\ ~GuiCalls(workers[w].sess)
            /\ \A v \in Threads \ {w} : ~WorkerCalls(v, workers[w].sess)

\* the heads of the configuration writes in the documented order: clear,
\* reset if requested, function, frequency, amplitude, offset, load, output on
DeclaredOrder ==
    <<"*CLS">> \o (IF reset THEN <<"*RST">> ELSE <<>>)
    \o <<"SOUR1:FUNC", "SOUR1:FREQ", "SOUR1:VOLT", "SOUR1:VOLT:OFFS",
         "OUTP1:LOAD", "OUTP1">>

\* positions on the wire of the writes that are not the output-OFF writes of
\* the shutdown
ConfigWrites == {i \in 1..Len(wire) : wire[i].op = "write" /\ ~IsOutputOff(wire[i])}

\* positions on the wire of the field readback queries
FieldReadbacks ==
    {i \in 1..Len(wire) :
        /\ wire[i].op = "query"
        /\ \E f \in 1..NumFields : wire[i].head = VerifyQueries[f]}

\* C11: without --check-only main sends, right after *IDN?, the configuration
\* writes in the declared order (the reset, if requested, before every
\* set-command), and no field readback query is on the wire before the last
\* of them (OUTP1 ON) has been sent.
C11_ConfigureBeforeVerify ==
    (pc # "off" /\ ~check_only) =>
        LET k == Cardinality(ConfigWrites)
        IN  /\ k <= Len(DeclaredOrder)
            /\ ConfigWrites = 2..(k + 1)
            /\ \A i \in ConfigWrites : wire[i].head = DeclaredOrder[i - 1]
            /\ \A j \in FieldReadbacks :
                  k = Len(DeclaredOrder) /\ j > Len(DeclaredOrder) + 1

\* a run with --reset has configured and finished its first verification
C11_Witness ==
    /\ pc = "report"
    /\ ~check_only
    /\ reset
    /\ Cardinality(ConfigWrites) = 8
    /\ Cardinality(FieldReadbacks) = NumFields

\* a write of configure_channel_one raised
ConfigureFailed == fault.at = "configure"

\* inst.close() and rm.close() are the last two calls on the wire
ClosedLast ==
    /\ Len(wire) >= 2
    /\ wire[Len(wire)].op = "close" /\ wire[Len(wire)].head = "rm"
    /\ wire[Len(wire) - 1].op = "close" /\ wire[Len(wire) - 1].head = "inst"

\* C12 as stated: after a failing configuration write the run has no field
\* readback and no monitor tick, the shutdown sequence runs and main returns
\* the exit code 4.
C12_ConfigureFailureReturns4 ==
    (pc = "exit" /\ ConfigureFailed) =>
        /\ FieldReadbacks = {}
        /\ reports = <<>>
        /\ ClosedLast
        /\ exit = Exited(4, NoExc)

\* C12: after a failing configuration write the run has no field readback, no
\* report and no monitor tick, and the shutdown sequence runs (unless Ctrl+C
\* lands inside it).  Main never returns a code other than 4; it returns 4
\* when the failure was a VISA I/O error, unless a close call of the shutdown
\* raises or Ctrl+C arrives in the handler or the shutdown; after any other
\* exception of the write an exception leaves main.
C12_ConfigureFailureEndsRun ==
    (pc = "exit" /\ ConfigureFailed) =>
        /\ FieldReadbacks = {}
        /\ reports = <<>>
        /\ ticks = 0
        /\ intr \notin ShutdownBlock => ClosedLast
        /\ exit.exc = NoExc => exit.code = 4
        /\ fault.kind = "VisaIOError" =>
              \/ exit = Exited(4, NoExc)
              \/ exit.exc.operation = "close"
              \/ exit.exc.type = "KeyboardInterrupt"
        /\ fault.kind # "VisaIOError" => exit.exc # NoExc

\* the fourth configuration write failed with a VISA I/O error and main
\* returned 4 after the handler's SYST:ERR? and the shutdown
C12_Witness ==
    /\ pc = "exit"
    /\ fault = [at |-> "configure", kind |-> "VisaIOError"]
    /\ cidx = 4
    /\ exit = Exited(4, NoExc)
    /\ ClosedLast

\* field readback queries of n complete verifications
ReadbacksOf(n) == NumFields * n

\* the clock has advanced by n sleeps of the monitor interval since main started
SleptTimes(n) == (now - n * interval) \in StartTimes

\* C13: in monitor mode every tick is one sleep of the interval, then one
\* complete verification (all seven queries), then one report: the reports
\* are numbered 0 (first check), 1, 2, ... with none skipped or repeated, and
\* after N ticks there are N monitor reports, N sleeps and N + 1 verifications.
C13_OneReportPerTick ==
    /\ pc \in MonitorLoop =>
          /\ Len(reports) = ticks + 1
          /\ \A i \in 1..Len(reports) : reports[i].tick = i - 1
    /\ pc = "monitor_sleep" =>
          /\ SleptTimes(ticks)
          /\ Cardinality(FieldReadbacks) = ReadbacksOf(ticks + 1)
    /\ pc = "monitor_verify" =>
          /\ SleptTimes(ticks + 1)
          /\ Cardinality(FieldReadbacks) =
                ReadbacksOf(ticks + 1)
                + (IF Len(vresp) < NumFields THEN Len(vresp) ELSE NumFields)
    /\ pc = "monitor_report" =>
          /\ SleptTimes(ticks + 1)
          /\ vstate = "returned"
          /\ Len(vresp) = ErrField
          /\ Cardinality(FieldReadbacks) = ReadbacksOf(ticks + 2)

\* two ticks have been completed without a cancellation
C13_Witness ==
    /\ pc = "monitor_sleep"
    /\ ticks = 2
    /\ intr = "none"
    /\ Len(reports) = 3

\* one "%H:%M:%S" text comes before another (the order of the texts is the
\* order of the hour, minute, second triples)
StampLess(a, b) ==
    \/ a.h < b.h
    \/ a.h = b.h /\ a.m < b.m
    \/ a.h = b.h /\ a.m = b.m /\ a.s < b.s

\* C14: the timestamps of consecutive monitor reports are strictly
\* increasing, for every positive interval.
C14_StampsIncrease ==
    \A i \in 1..(Len(reports) - 1) :
        reports[i].tick >= 1 => StampLess(reports[i].stamp, reports[i + 1].stamp)

\* Ctrl+C arrived in time.sleep of the AFG monitor loop: the loop has ended,
\* main is in its shutdown, and neither a verification nor a report was added
\* for the tick in progress
AfgSleepCancelled ==
    intr = "monitor_sleep" =>
        /\ pc \in ShutdownBlock \cup {"exit"}
        /\ vstate = "idle"
        /\ Len(reports) = ticks + 1
        /\ Cardinality(FieldReadbacks) = ReadbacksOf(ticks + 1)

\* a step of _scan_worker that finds the stop flag set, in stop_event.wait or
\* in the loop test that follows a wake-up, leaves the loop: no acquisition is
\* started and nothing is queued; a worker that has left the loop stays out
ScanWorkerStops ==
    /\ (scan_pc \in {"wait", "check"} /\ cli_stop_event /\ scan_pc' # scan_pc) =>
          /\ scan_pc' = "finally"
          /\ scans' = scans
          /\ cli_queue' = cli_queue
    /\ scan_pc \in {"finally", "dead"} =>
          /\ scan_pc' \in {"finally", "dead"}
          /\ scans' = scans

\* the same for every OSAPage._acquisition_worker thread
PageWorkerStops ==
    \A w \in Threads :
        /\ (workers[w].pc \in {"wait", "check"} /\ stop_event
                /\ workers'[w] # workers[w]) =>
              /\ workers'[w].pc = "dead"
              /\ nacq' = nacq
              /\ data_queue' = data_queue
        /\ workers[w].pc = "dead" => workers'[w].pc = "dead"

\* C15: a cancellation that arrives during the sleep between two ticks ends
\* the loop with no further verification or acquisition and no report for the
\* tick in progress: Ctrl+C in the AFG monitor loop, the stop flag found set
\* by stop_event.wait (checked on entry, before sleeping) or by the loop test
\* right after a wake-up in _scan_worker and OSAPage._acquisition_worker.
C15_CancelDuringSleep ==
    /\ []AfgSleepCancelled
    /\ [][ScanWorkerStops /\ PageWorkerStops]_vars

\* Ctrl+C during the sleep of the second tick: main has ended with the first
\* check and one monitor report only
C15_Witness ==
    /\ pc = "exit"
    /\ intr = "monitor_sleep"
    /\ ticks = 1
    /\ Len(reports) = 2
    /\ exit = Exited(0, NoExc)

\* the monitor loop was cancelled by Ctrl+C and no later Ctrl+C arrived
LoopCancelled == intr \in MonitorLoop

TickMatches ==
    \A i \in 1..ErrField : vresp[i] = [u |-> "ok", text |-> ExpectedAnswer(i)]

\* the result of a tick is the result of its own seven answers, whatever the
\* earlier reports were
TickJudgedAlone ==
    pc = "monitor_report" =>
        /\ Len(vresp) = ErrField
        /\ ok <=> TickMatches

\* the report of a tick carries that result, and after it the loop sleeps
\* again (unless Ctrl+C arrives), whether the tick was OK or NG
TickReportedAlone ==
    (pc = "monitor_report" /\ pc' # pc /\ intr' = intr) =>
        /\ pc' = "monitor_sleep"
        /\ Len(reports') = Len(reports) + 1
        /\ reports'[Len(reports')].ok = TickMatches
        /\ SubSeq(reports', 1, Len(reports)) = reports

\* C17: monitor ticks are independent: the OK/NG result of a tick depends only
\* on the answers of that tick (OK exactly when all of them match, also after
\* ticks that were NG or whose queries failed), earlier reports are left as
\* they were, and the loop goes on after an NG tick as after an OK one.
C17_TicksIndependent ==
    /\ []TickJudgedAlone
    /\ [][TickReportedAlone]_vars

\* the first tick was NG (an answer did not match or a query failed), the second matched and was
\* OK, and the loop is sleeping again
C17_Witness ==
    /\ pc = "monitor_sleep"
    /\ ticks = 2
    /\ reports[1].ok
    /\ ~reports[2].ok
    /\ reports[3].ok

\* the VisaCommandError that keeps the context of the call e after the VISA
\* I/O error `original`
WrappedFor(e, original) ==
    [type |-> "VisaCommandError", operation |-> e.op, command |-> e.head,
     arg |-> e.arg, original |-> original]

\* a query of verify_channel_one whose inst.query failed did not return: its
\* line is the failure line, and it carries the VisaCommandError of that query
QueryFailureKept ==
    \A i \in 1..Len(vresp) :
        vresp[i].u # "ok" =>
            /\ diagnostics[i].status = "QUERY_FAILED"
            /\ diagnostics[i].note # NoExc
            /\ vresp[i].u = "VisaIOError" =>
                  diagnostics[i].note = WrappedFor(VerifyWire[i], "VisaIOError")
                  /\ VerifyWire[i].op = "query"

\* an io.query("*IDN?") or a configuration io.write whose underlying call
\* failed raised: main does not go on to its next statement, and after a VISA
\* I/O error the exception is the VisaCommandError of the command just sent
CallFailureKept ==
    fault' # fault =>
        /\ Len(wire') = Len(wire) + 1
        /\ raised' # NoExc
        /\ pc' \notin {"configure", "settle", "verify"}
        /\ fault'.kind = "VisaIOError" =>
              /\ raised' = WrappedFor(wire'[Len(wire')], "VisaIOError")
              /\ raised'.operation = (IF fault'.at = "idn" THEN "query" ELSE "write")
        /\ fault'.kind # "VisaIOError" => raised'.type = fault'.kind

\* C18: when the underlying VISA write or query fails with a VISA I/O error,
\* InstrumentIO.write / InstrumentIO.query raises a VisaCommandError whose
\* operation and command are those of the failing call and whose original is
\* the underlying error; no failure of the underlying call becomes a normal
\* return (another exception goes through as it is).
C18_FailureKeepsContext ==
    /\ []QueryFailureKept
    /\ [][CallFailureKept]_vars

\* the frequency write of the configuration failed with a VISA I/O error and
\* main is in its VisaCommandError handler
C18_Witness ==
    /\ pc = "handler"
    /\ fault = [at |-> "configure", kind |-> "VisaIOError"]
    /\ raised.type = "VisaCommandError"
    /\ raised.operation = "write"
    /\ raised.command = "SOUR1:FREQ"
    /\ raised.original = "VisaIOError"

\* a command that changes nothing on the instrument: a query
IsQuery(e) == e.op = "query"

\* a call on the transport objects, not a command sent to the instrument
IsClose(e) == e.op = "close"

\* C19: in a run with --check-only no state-changing command is sent to the
\* instrument at any point of the run, the shutdown sequence included: every
\* command on the wire is a query.
C19_CheckOnlySendsQueriesOnly ==
    check_only => \A i \in 1..Len(wire) : IsQuery(wire[i]) \/ IsClose(wire[i])

\* the path number of a documented name: "A" is 1, ..., "H" is 8
NameIndex(name) == CHOOSE i \in 1..8 : name = <<UpperAlpha[i]>>

\* the number of paths of a 1X4 / 1X8 switch
PathCount == IF osw_type = 1 THEN 4 ELSE 8

\* the last call was SetPath with one of the names documented for the switch
NamedPathSet ==
    /\ osw_call.method = "SetPath"
    /\ osw_type \in {1, 2}
    /\ osw_call.arg.t = "str"
    /\ osw_call.arg.s \in PathNames
    /\ NameIndex(osw_call.arg.s) <= PathCount

\* C20: SetPath accepts the documented string names: on a 1X4 switch "A",
\* "B", "C", "D" select the paths 1, 2, 3, 4 and on a 1X8 switch "A" ... "H"
\* select the paths 1 ... 8 (the path stored and, on the equipment, the path
\* of the command sent).
C20_NamesSelectPaths ==
    NamedPathSet =>
        /\ osw_path = NameIndex(osw_call.arg.s)
        /\ ~osw_simulation =>
              osw_sent[Len(osw_sent)] =
                  SetPathCommand(osw_type, osw_slot, NameIndex(osw_call.arg.s))

\* the documented paths of the switch type: 0 or 1 (1X2, 2X2), 1..4, 1..8
DocumentedPaths ==
    CASE osw_type = 0 -> {0, 1}
      [] osw_type = 1 -> 1..4
      [] osw_type = 2 -> 1..8

\* the bound of the documented range nearest to the integer k
NearestPath(k) ==
    IF k \in DocumentedPaths THEN k
    ELSE IF k < 1 THEN 1
    ELSE PathCount

\* after SetPath on a simulated switch the stored path is a documented one,
\* and on 1X4 / 1X8 an integer argument selected itself or the nearest bound
SimulatedPathInRange ==
    (osw_simulation /\ osw_call.method = "SetPath") =>
        /\ osw_path \in DocumentedPaths
        /\ (osw_type \in {1, 2} /\ osw_call.arg.t = "int") =>
              osw_path = NearestPath(osw_call.arg.n)

\* GetPath on a simulated switch returns the stored path and leaves it as it is
SimulatedGetReturnsPath ==
    (osw_simulation /\ osw_calls' # osw_calls /\ osw_call'.method = "GetPath") =>
        /\ osw_call'.raised = "none"
        /\ osw_call'.result = osw_path
        /\ osw_path' = osw_path
        /\ osw_sent' = osw_sent

\* C21: for a simulated OpticalSwitch, after any SetPath call GetPath returns
\* the path SetPath selected; that path lies in the documented range of the
\* switch type, and on 1X4 and 1X8 an integer outside the range is clamped to
\* the nearest bound.
C21_SimulatedRoundTrip ==
    /\ []SimulatedPathInRange
    /\ [][SimulatedGetReturnsPath]_vars

\* SetPath with an integer above the range of a simulated 1X4 switch, then
\* GetPath, which returned 4
C21_Witness ==
    /\ osw_simulation
    /\ osw_type = 1
    /\ osw_calls = 2
    /\ osw_call.method = "GetPath"
    /\ osw_call.result = 4
    /\ osw_path = 4

\* the acquisition worker threads that are alive
AliveWorkers == {w \in Threads : Alive(w)}

AtMostOneWorker == Cardinality(AliveWorkers) <= 1

\* an acquisition is started only by the thread of the latest Start click and
\* only while the stop flag is clear: a worker that a Stop click has stopped
\* starts none after the one in flight
NoAcquisitionAfterStop ==
    \A w \in Threads :
        (workers[w].pc # "acquiring" /\ workers'[w].pc = "acquiring") =>
            /\ ~stop_event
            /\ w = acquisition_thread

\* C22: in OSAPage at most one acquisition worker thread is alive at any
\* time, and once Stop is clicked the worker that was running starts no
\* further acquisition after the one in flight, for any sequence of Connect /
\* Start / Stop / Disconnect clicks (a Start after a Stop whose join timed out
\* included).
C22_OneWorkerAtATime ==
    /\ []AtMostOneWorker
    /\ [][NoAcquisitionAfterStop]_vars

\* the error item of the worker is in the queue
ErrorQueued == \E i \in 1..Len(cli_queue) : cli_queue[i].kind = "error"

RECURSIVE QueuedScans(_)
QueuedScans(q) ==
    IF q = <<>> THEN <<>>
    ELSE IF Head(q).kind = "data" THEN <<Head(q).scan>> \o QueuedScans(Tail(q))
    ELSE QueuedScans(Tail(q))

\* the scan numbers main has printed, in the order printed
PrintedScans == [i \in 1..Len(printed) |-> printed[i].scan]

\* acquisitions that have returned a spectrum: every acquisition started but
\* the one in flight or the one that raised
SpectraQueued == Len(PrintedScans \o QueuedScans(cli_queue))

\* nothing is lost, repeated or reordered on the way: the spectra printed,
\* followed by those waiting in the queue, are the spectra acquired, in the
\* order acquired, and the printed ones are numbered 1, 2, 3, ...
QueueKeepsOrder ==
    /\ \A i \in 1..SpectraQueued : (PrintedScans \o QueuedScans(cli_queue))[i] = i
    /\ \A i \in 1..Len(printed) : printed[i].idx = i
    /\ scan_idx = Len(printed)
    /\ SpectraQueued \in {scans, scans - 1}
    /\ scan_pc \in {"check", "wait"} => SpectraQueued = scans

\* put never waits: whatever main is doing, a worker whose acquire_once has
\* returned can queue its item
WorkerNeverBlocked == scan_pc = "acquiring" => ENABLED ScanAcquired

\* the consumer goes from its loop test to the finally clause only with the
\* stop flag set and the queue empty
LeavesLoopDrained ==
    (cli_pc = "loop" /\ cli_pc' = "finally") => cli_stop_event /\ cli_queue = <<>>

\* C24 as stated: the queue loses and reorders nothing; every spectrum the
\* worker enqueues before it sets the stop flag is consumed exactly once, in
\* the order acquired, numbered from 1; the consumer leaves its loop only when
\* the stop flag is set and the queue is empty; the worker is never blocked.
C24_EverySpectrumConsumed ==
    /\ [](QueueKeepsOrder /\ WorkerNeverBlocked)
    /\ [](scan_pc = "dead" /\ cli_pc = "done" => QueuedScans(cli_queue) = <<>>)
    /\ [][LeavesLoopDrained]_vars

\* the consumer leaves its loop from the loop test, with the stop flag set
\* and the queue empty, or by a KeyboardInterrupt
LeavesLoopDrainedOrInterrupted ==
    (cli_pc \in {"loop", "get"} /\ cli_pc' = "finally") =>
        \/ cli_pc = "loop" /\ cli_stop_event /\ cli_queue = <<>>
        \/ cli_intr'

\* C24: the queue loses, repeats and reorders nothing and the worker is never
\* blocked by the consumer; the spectra consumed are numbered consecutively
\* from 1 in the order acquired; the consumer leaves its loop when the stop
\* flag is set and the queue is empty, or by Ctrl+C.  When main has ended
\* without Ctrl+C and without the plot window having been closed, every
\* spectrum the worker queued has been consumed; a spectrum queued after
\* Ctrl+C or after the closed plot window made main set the stop flag can be
\* left in the queue.
C24_QueueKeepsOrder ==
    /\ [](QueueKeepsOrder /\ WorkerNeverBlocked)
    /\ [](cli_pc \in {"finally", "join", "done"} /\ ~cli_intr /\ plotter # "closed"
            => QueuedScans(cli_queue) = <<>> /\ Len(printed) = SpectraQueued)
    /\ [][LeavesLoopDrainedOrInterrupted]_vars

\* two spectra were acquired and printed in order, the third acquisition
\* raised, and main has ended with an empty queue
C24_Witness ==
    /\ cli_pc = "done"
    /\ ~cli_intr
    /\ plotter # "closed"
    /\ scans = 3
    /\ PrintedScans = <<1, 2>>
    /\ worker_error # "none"
    /\ cli_queue = <<>>

\* C25: every acquisition the SA page makes on a timer tick (get_trace_data /
\* acquire_once) is on a session that a Start click has configured since it
\* was connected, with no Stop after that Start: no acquisition command is
\* sent to a session that is connected but has not been started, for any
\* sequence of Connect / Start / Stop / Disconnect clicks and timer ticks.
C25_AcquiresOnlyWhenStarted == \A a \in sap_acquired : a.started

\* the worker thread has ended only with the stop flag set
WorkerEndSetsFlag == scan_pc = "dead" => cli_stop_event

\* main has returned
CliReturned == cli_pc = "done" /\ cli_exit >= 0

\* the consumer loop is left for the finally clause without a Ctrl+C
LoopLeftByTest == cli_pc = "loop" /\ cli_pc' = "finally" /\ ~cli_intr'

\* C26 as stated: when the scan worker has ended (stop requested, or an
\* exception in acquisition) the stop flag is set, and main then drains the
\* queue, leaves its consumer loop and returns.
C26_WorkerEndDrainsAndReturns ==
    /\ []WorkerEndSetsFlag
    /\ (scan_pc = "dead") ~> (CliReturned /\ cli_queue = <<>>)

\* C26, amended: when the scan worker has ended the stop flag is set and main
\* returns, so the consumer never waits forever on a dead worker; the queue is
\* empty whenever the loop test, not a Ctrl+C, ends the loop.
C26_WorkerEndSetsFlag ==
    /\ []WorkerEndSetsFlag
    /\ (scan_pc = "dead") ~> CliReturned
    /\ [][LoopLeftByTest => cli_queue = <<>>]_vars

\* the worker ended on an exception while main was polling, and main has
\* drained the queue and returned the error's exit code
C26_Witness ==
    /\ scan_pc = "dead"
    /\ early_error
    /\ CliReturned
    /\ ~cli_intr
    /\ cli_queue = <<>>
    /\ Len(printed) >= 1
    /\ cli_exit = 2

\* SA_FSV30.is_connected: self._instr is not None
IsConnected == sa_instr # "none"

\* the last call was a connect() that raised
ConnectFailed == sa_call.method = "connect" /\ sa_call.raised # NoExc

\* the last call was a connect() on an object that is_connected, which issued
\* nothing
ConnectSkipped == sa_call.method = "connect" /\ sa_call.sent = <<>>

\* C27: whenever SA_FSV30.is_connected is true the initialisation sequence
\* (*IDN?, *CLS, INIT:CONT OFF, ABOR, SYST:DISP:UPD ON) has completed: a
\* connect() that raised partway leaves the object not connected, so that the
\* next connect() issues the full sequence instead of returning at once.
C27_ConnectedMeansInitialised ==
    /\ [](ConnectFailed => ~IsConnected)
    /\ [][ConnectFailed => ~ConnectSkipped']_vars

\* the *IDN? query or a configuration write failed with a VISA I/O error
VisaFault == fault.at \in {"idn", "configure"} /\ fault.kind = "VisaIOError"

\* some verification of the run reported NG
ReportedNG == \E i \in 1..Len(reports) : ~reports[i].ok

\* C28 as stated: once the instrument is opened main returns 4 exactly when
\* the *IDN? query or a configuration write fails with a VISA I/O error and
\* returns 0 otherwise, whatever the verifications reported.
C28_ExitCodeFourOrZero ==
    pc = "exit" => exit = Exited(IF VisaFault THEN 4 ELSE 0, NoExc)

\* C28, amended: whenever main returns, it returns 4 exactly when the *IDN?
\* query or a configuration write failed with a VISA I/O error and 0
\* otherwise, whatever the verifications reported; main ends with an
\* exception instead of a return only after another exception of *IDN? or of
\* a configuration write, a failing inst.close() / rm.close(), or a Ctrl+C in
\* the handler or the shutdown.
C28_ExitCodeIgnoresVerification ==
    pc = "exit" =>
        /\ exit.exc = NoExc => exit.code = (IF VisaFault THEN 4 ELSE 0)
        /\ exit.exc # NoExc =>
              \/ fault.kind = "OtherError"
              \/ exit.exc.operation = "close"
              \/ exit.exc.type = "KeyboardInterrupt"

\* a monitor run whose first check and whose ticks reported NG has returned 0
C28_Witness ==
    /\ pc = "exit"
    /\ monitor
    /\ ticks = MaxTicks
    /\ \A i \in 1..Len(reports) : ~reports[i].ok
    /\ Len(reports) = MaxTicks + 1
    /\ exit = Exited(0, NoExc)

\* a spectrum shown during a run was queued after the Start click of that run
ShownInOwnRun(p) == p.from.starts >= p.during

\* C29: in OSAPage every spectrum that is plotted after a Start click was
\* acquired after that Start click: an item left in the data queue by an
\* earlier acquisition run (put by the worker after Stop stopped the update
\* timer, for example) is never shown during a later run.
C29_NoStaleSpectrum == \A p \in plotted : ShownInOwnRun(p)

\* the stored list has one pair per marker whose set_marker has returned, in
\* the order of the first such call, with the frequency of the latest one
MarkersStored ==
    /\ Len(sa_markers) = Len(sa_registered)
    /\ \A i \in 1..Len(sa_markers) :
          /\ sa_markers[i].cmd = MarkerCmd(sa_registered[i])
          /\ sa_markers[i].freq = sa_last_set[sa_registered[i]]
    /\ \A i, j \in 1..Len(sa_markers) :
          i # j => sa_markers[i].cmd # sa_markers[j].cmd

\* the last call was an acquire_once that returned
AcquireReturned == sa_call.method = "acquire_once" /\ sa_call.raised = NoExc

\* C30: after any sequence of set_marker calls (marker numbers 1-4) the
\* stored marker list holds at most one entry per marker number, the entry
\* carries the frequency of the most recent set_marker of that marker that
\* returned, and the entries are in order of first registration; an
\* acquire_once that returns gives exactly one reading per distinct marker,
\* in that order, tagged with the marker number passed to set_marker.
C30_OneEntryPerMarker ==
    /\ MarkersStored
    /\ AcquireReturned =>
          /\ Len(sa_readings) = Len(sa_registered)
          /\ \A i \in 1..Len(sa_readings) : sa_readings[i].num = sa_registered[i]

\* markers 3, 1 and 4 were registered in that order, marker 3 was set again
\* to the other frequency after marker 1, and acquire_once has returned their
\* three readings
C30_Witness ==
    /\ sa_registered = <<3, 1, 4>>
    /\ sa_last_set = [n \in MarkerNums |-> IF n = 2 THEN 0 ELSE IF n = 3 THEN 20 ELSE 10]
    /\ AcquireReturned
    /\ Len(sa_readings) = 3

====
